---------------------------- MODULE Spec2Model ----------------------------
(***************************************************************************)
(* A model of the any2pdf migration tooling:                               *)
(*   - migrate_blobs_to_pdf.py : the migration driver (main loop)          *)
(*   - any2pdf.py              : extension classifier, dispatcher,         *)
(*                               placeholder generator, attachment embedder*)
(*   - extract_failures.py     : the failure ledger (extract / update)     *)
(*                                                                         *)
(* Strings of the program (blob names, extensions, log lines) are          *)
(* sequences of one-character strings, so that slicing, splitting and      *)
(* substring search are computed as the code computes them.                *)
(***************************************************************************)
EXTENDS Integers, Sequences, FiniteSets, TLC

(***************************************************************************)
(* Bounds of the model.                                                    *)
(***************************************************************************)
\* longest source listing drawn in Init
MaxItems == 2
\* most failures of the environment (network, renderer, disk) in one behaviour
MaxFaults == 1
\* largest --max-files / --test-all argument drawn in Init
MaxArg == 1

(***************************************************************************)
(* String helpers (Python str / pathlib semantics).                        *)
(***************************************************************************)
\* the element of a one-element set; { e(x) : x \in {v} } computes v once
The(S) == CHOOSE x \in S : TRUE

\* s[k:] of Python (k >= 0): the string without its first k characters
DropFirst(s, k) ==
    The({ IF j >= Len(t) THEN << >> ELSE SubSeq(t, j + 1, Len(t)) : <<t, j>> \in {<<s, k>>} })

\* s.startswith(p)
StartsWith(s, p) == Len(p) <= Len(s) /\ SubSeq(s, 1, Len(p)) = p

\* s.endswith(p)
EndsWith(s, p) == Len(p) <= Len(s) /\ SubSeq(s, Len(s) - Len(p) + 1, Len(s)) = p

\* p in s   (substring search)
Contains(s, p) == \E i \in 1..(Len(s) - Len(p) + 1) : SubSeq(s, i, i + Len(p) - 1) = p

\* s.rfind(c) + 1 : position of the last occurrence of character c, 0 if none
RFind(s, c) ==
    The({ IF P = {} THEN 0 ELSE CHOOSE i \in P : \A j \in P : j <= i
          : P \in { { i \in 1..Len(s) : s[i] = c } } })

\* s.find(p) + 1 : position of the first occurrence of substring p, 0 if none
Find(s, p) == IF Contains(s, p)
              THEN CHOOSE i \in 1..(Len(s) - Len(p) + 1) :
                     /\ SubSeq(s, i, i + Len(p) - 1) = p
                     /\ \A j \in 1..(i-1) : SubSeq(s, j, j + Len(p) - 1) # p
              ELSE 0

\* s.split('/')[-1]
LastSegment(s) == DropFirst(s, RFind(s, "/"))

\* s.rsplit('.', 1)[0]
RSplitDotHead(s) ==
    The({ IF RFind(t, ".") = 0 THEN t ELSE SubSeq(t, 1, RFind(t, ".") - 1) : t \in {s} })

UpperChars == <<"A","B","C","D","E","F","G","H","I","J","K","L","M",
                "N","O","P","Q","R","S","T","U","V","W","X","Y","Z">>
LowerChars == <<"a","b","c","d","e","f","g","h","i","j","k","l","m",
                "n","o","p","q","r","s","t","u","v","w","x","y","z">>

LowerOf ==
    [u \in { UpperChars[i] : i \in 1..Len(UpperChars) } |->
        LowerChars[CHOOSE i \in 1..Len(UpperChars) : UpperChars[i] = u]]

LowerChar(c) == The({ IF d \in DOMAIN LowerOf THEN LowerOf[d] ELSE d : d \in {c} })

\* s.lower()
Lower(s) == The({ [i \in 1..Len(t) |-> LowerChar(t[i])] : t \in {s} })

\* pathlib.Path(s).name for a name that does not end with a separator
PathName(s) == LastSegment(s)

\* pathlib.Path(s).suffix : the last dot of the final component starts the
\* suffix unless it is the first or the last character of the component
PathSuffix(s) ==
    The({ The({ IF 1 < i /\ i < Len(n) THEN SubSeq(n, i, Len(n)) ELSE << >> : i \in {RFind(n, ".")} })
          : n \in {PathName(s)} })

\* pathlib.Path(s).stem
PathStem(s) ==
    The({ SubSeq(n, 1, Len(n) - Len(PathSuffix(n))) : n \in {PathName(s)} })

DotPdf == <<".","p","d","f">>

(***************************************************************************)
(* any2pdf.py : extension sets and the extension classifier.               *)
(***************************************************************************)
PDF_EXTENSIONS == { DotPdf }
WORD_EXTENSIONS == { <<".","d","o","c">>, <<".","d","o","c","x">>, <<".","r","t","f">>,
                     <<".","o","d","t">>, <<".","t","x","t">>, <<".","d","o","t">> }
EXCEL_EXTENSIONS == { <<".","x","l","s">>, <<".","x","l","s","x">>, <<".","o","d","s">>,
                      <<".","c","s","v">>, <<".","x","l","s","m">> }
PPT_EXTENSIONS == { <<".","p","p","t">>, <<".","p","p","t","x">>, <<".","o","d","p">> }
IMAGE_EXTENSIONS == { <<".","j","p","g">>, <<".","j","p","e","g">>, <<".","p","n","g">>,
                      <<".","t","i","f">>, <<".","t","i","f","f">>, <<".","b","m","p">>,
                      <<".","h","e","i","c">> }
HTML_EXTENSIONS == { <<".","h","t","m","l">>, <<".","h","t","m">> }
MSG_EXTENSIONS == { <<".","m","s","g">> }
EML_EXTENSIONS == { <<".","e","m","l">> }

ALL_SUPPORTED_EXTENSIONS ==
    PDF_EXTENSIONS \cup WORD_EXTENSIONS \cup EXCEL_EXTENSIONS \cup PPT_EXTENSIONS
    \cup IMAGE_EXTENSIONS \cup HTML_EXTENSIONS \cup MSG_EXTENSIONS \cup EML_EXTENSIONS

Categories == {"pdf", "word", "excel", "ppt", "image", "html", "msg", "eml", "attachment"}

\* the extension is looked up as given, without lower()
get_category_for_extension_CaseSensitive(e) ==
    The({ IF x \in PDF_EXTENSIONS THEN "pdf"
          ELSE IF x \in WORD_EXTENSIONS THEN "word"
          ELSE IF x \in EXCEL_EXTENSIONS THEN "excel"
          ELSE IF x \in PPT_EXTENSIONS THEN "ppt"
          ELSE IF x \in IMAGE_EXTENSIONS THEN "image"
          ELSE IF x \in HTML_EXTENSIONS THEN "html"
          ELSE IF x \in MSG_EXTENSIONS THEN "msg"
          ELSE IF x \in EML_EXTENSIONS THEN "eml"
          ELSE "attachment" : x \in {e} })

\* get_category_for_extension, lines 59-78
get_category_for_extension(e) ==
    The({ IF ext \in PDF_EXTENSIONS THEN "pdf"
          ELSE IF ext \in WORD_EXTENSIONS THEN "word"
          ELSE IF ext \in EXCEL_EXTENSIONS THEN "excel"
          ELSE IF ext \in PPT_EXTENSIONS THEN "ppt"
          ELSE IF ext \in IMAGE_EXTENSIONS THEN "image"
          ELSE IF ext \in HTML_EXTENSIONS THEN "html"
          ELSE IF ext \in MSG_EXTENSIONS THEN "msg"
          ELSE IF ext \in EML_EXTENSIONS THEN "eml"
          ELSE "attachment" : ext \in {Lower(e)} })


\* convert_anything_to_pdf's routing: the renderer called for an extension,
\* "unsupported" when the extension is outside the supported set
\* the dispatcher tests the HTML set before the Word set and takes .txt for HTML
RendererFor_TextAsHtml(e) ==
    The({ IF ext \in PDF_EXTENSIONS THEN "pdf"
          ELSE IF ext \in HTML_EXTENSIONS \cup { <<".","t","x","t">> } THEN "html"
          ELSE IF ext \in WORD_EXTENSIONS THEN "word"
          ELSE IF ext \in EXCEL_EXTENSIONS THEN "excel"
          ELSE IF ext \in PPT_EXTENSIONS THEN "ppt"
          ELSE IF ext \in IMAGE_EXTENSIONS THEN "image"
          ELSE IF ext \in MSG_EXTENSIONS THEN "msg"
          ELSE IF ext \in EML_EXTENSIONS THEN "eml"
          ELSE "unsupported" : ext \in {Lower(e)} })

RendererFor(e) ==
    The({ IF ext \in PDF_EXTENSIONS THEN "pdf"
          ELSE IF ext \in WORD_EXTENSIONS THEN "word"
          ELSE IF ext \in EXCEL_EXTENSIONS THEN "excel"
          ELSE IF ext \in PPT_EXTENSIONS THEN "ppt"
          ELSE IF ext \in IMAGE_EXTENSIONS THEN "image"
          ELSE IF ext \in HTML_EXTENSIONS THEN "html"
          ELSE IF ext \in MSG_EXTENSIONS THEN "msg"
          ELSE IF ext \in EML_EXTENSIONS THEN "eml"
          ELSE "unsupported" : ext \in {Lower(e)} })

(***************************************************************************)
(* File contents.  The bytes of a source blob are identified by the blob's *)
(* name; a PDF is its page content plus the list of embedded attachments.  *)
(***************************************************************************)
\* the bytes of source blob n
RawBytes(n) == [kind |-> "raw", pages |-> "source", of |-> n, attach |-> << >>]

\* the PDF a renderer writes for the source content c (no attachment yet)
RenderedPdf(c) == [kind |-> "pdf", pages |-> "rendered", of |-> c.of, attach |-> << >>]

\* the one-page PDF create_placeholder_pdf writes for the file named n
PlaceholderPage(n) == [kind |-> "pdf", pages |-> "placeholder", of |-> n, attach |-> << >>]

\* attach_original_to_pdf, lines 108-121: the PDF the writer holds: the pages
\* of p (add_page copies pages only) and one attachment, the file named name
\* with the content orig
attach_original_to_pdf(p, name, orig) ==
    [p EXCEPT !.attach = <<[name |-> name, bytes |-> orig]>>]

\* the directory d with file f holding content c
WriteFile(d, f, c) == (f :> c) @@ d

(***************************************************************************)
(* migrate_blobs_to_pdf.py : configuration.                                *)
(***************************************************************************)
INPUT_PREFIX == <<"s","/">>
OUTPUT_PREFIX == <<"o","u","t","/">>
ExcludedLogs == <<"L","o","g","s","/">>
ExcludedMapping == <<"M","a","p","p","i","n","g"," ","T","a","b","l","e","s","/">>
\* the directory given as --local-output
LocalDir == <<"l","o","c","a","l">>
\* --max-files not given (argparse default None)
NoMaxFiles == -1

\* a category name as the characters of a path component
CategoryChars(c) ==
    CASE c = "pdf" -> <<"p","d","f">>
      [] c = "word" -> <<"w","o","r","d">>
      [] c = "excel" -> <<"e","x","c","e","l">>
      [] c = "ppt" -> <<"p","p","t">>
      [] c = "image" -> <<"i","m","a","g","e">>
      [] c = "html" -> <<"h","t","m","l">>
      [] c = "msg" -> <<"m","s","g">>
      [] c = "eml" -> <<"e","m","l">>
      [] OTHER -> <<"a","t","t","a","c","h","m","e","n","t">>

\* numeric value of a logging level name
LevelNo(l) ==
    CASE l = "DEBUG" -> 10
      [] l = "INFO" -> 20
      [] l = "WARNING" -> 30
      [] OTHER -> 40

\* the file handler keeps warnings and errors only
FILE_HANDLER_LEVEL_Warning == "WARNING"

\* the file handler keeps every record
FILE_HANDLER_LEVEL_Debug == "DEBUG"

\* level of the migration.log file handler
FILE_HANDLER_LEVEL == "INFO"

\* whether the file handler writes the record
FileHandlerAccepts(r) == LevelNo(r.level) >= LevelNo(FILE_HANDLER_LEVEL)

(***************************************************************************)
(* The blobs a source listing is drawn from, in the order list_blobs       *)
(* returns them (lexicographic).                                           *)
(***************************************************************************)
BlobPool == <<
    [name |-> <<"s","/","L","o","g","s","/","r","u","n",".","p","n","g">>, size |-> 1],
    [name |-> <<"s","/","a","/","d","o","c",".","d","o","c","x">>, size |-> 1],
    [name |-> <<"s","/","a","/","d","o","c",".","h","t","m">>, size |-> 1],
    [name |-> <<"s","/","a","/","d","o","c",".","t","x","t">>, size |-> 1],
    [name |-> <<"s","/","a","/","i","m","g",".","p","n","g">>, size |-> 1],
    [name |-> <<"s","/","a","/","m","y","s","t","e","r","y",".","x","y","z">>, size |-> 1],
    [name |-> <<"s","/","a","/","p","i","c",".","p","n","g">>, size |-> 1],
    [name |-> <<"s","/","a","/","p","l","a","c","e","h","o","l","d","e","r","/">>, size |-> 0] >>

\* the sub-listing of the pool selected by the index set S, in pool order
RECURSIVE SubListing(_, _)
SubListing(S, k) ==
    IF k > Len(BlobPool) THEN << >>
    ELSE IF k \in S THEN <<BlobPool[k]>> \o SubListing(S, k + 1)
    ELSE SubListing(S, k + 1)

\* the listing of the three-file scenario: a/doc.docx, a/img.png, a/mystery.xyz
ScenarioListing == SubListing({2, 5, 6}, 1)

Listings ==
    { SubListing(S, 1) : S \in { T \in SUBSET (1..Len(BlobPool)) : Cardinality(T) <= MaxItems } }
    \cup { ScenarioListing }

\* the driver is invoked twice in a behaviour
Runs == {1, 2}

FilterPng == <<".","P","N","G">>

\* the flag combinations drawn in Init: at most one of the sampling flags
\* (--max-files, --test-all, --filter-extension) is given in an invocation
Configs ==
    { c \in [ force : BOOLEAN, overwrite : BOOLEAN, local_output : BOOLEAN,
              max_files : {NoMaxFiles} \cup 1..MaxArg,
              test_all : 0..MaxArg,
              filter_extension : {<< >>, FilterPng} ] :
        Cardinality({ k \in {1, 2, 3} :
                        \/ k = 1 /\ c.max_files # NoMaxFiles
                        \/ k = 2 /\ c.test_all # 0
                        \/ k = 3 /\ c.filter_extension # << >> }) <= 1 }

(***************************************************************************)
(* State of the migration driver.                                          *)
(***************************************************************************)
VARIABLES
    blobs,             \* the source listing (main's blobs)
    cfg,               \* the command line flags and OVERWRITE_OUTPUT
    run,               \* number of driver invocations started
    pc,                \* position of main: idle, loop, download, convert, placeholder, save
    idx,               \* position of the for loop in blobs
    existing_outputs,  \* main's existing_outputs
    category_counts,   \* main's category_counts
    processed_count,   \* main's processed_count
    fallback,          \* main's fallback
    pdf_path,          \* main's pdf_path: a file name in the scratch directory
    tmpdir,            \* the scratch directory: file name -> content
    store,             \* the destination blobs of the container: name -> content
    localfs,           \* the files under --local-output: path -> content
    logfile,           \* migration.log (file handler)
    console,           \* the console handler's output
    hist,              \* history of the steps taken: [run, item, ev]
    faults             \* number of environment failures so far

(***************************************************************************)
(* State of the failure ledger (extract_failures.py).                      *)
(***************************************************************************)
VARIABLES
    log_lines,         \* the lines of the log the ledger reads, oldest first
    failure_files,     \* the failure list files: file name -> set of names
    last_op,           \* the last ledger step: "none", "append", "extract", "update"
    last_file,         \* the list file the last --update rewrote
    prev_files         \* failure_files as it was before the last ledger step

(***************************************************************************)
(* State of any2pdf.py called as a library: convert_anything_to_pdf and    *)
(* attach_original_to_pdf called directly, and the extension classifier.   *)
(***************************************************************************)
VARIABLES
    disk,              \* the file system: path -> content; a path without "/" is in dst_dir
    dst_dir_made,      \* whether dst_dir exists
    call,              \* the call in progress or the last one: [op, src, attach, pdf_path]
    cpc,               \* position in the call: idle, render, attach_read, attach_write, attach_replace
    writer,            \* attach_original_to_pdf's writer: the PDF built in memory
    results,           \* one record per finished call: [call, status, path, error]
    invoked,           \* the handlers and renderers the dispatcher has invoked in this call
    at_entry,          \* disk when the call was made
    embed_entry,       \* disk when attach_original_to_pdf was entered in this call
    ncalls,            \* number of calls made
    ext_arg,           \* the argument of get_category_for_extension
    category_ret,      \* its return value, "" before the call
    app,               \* the application instance a COM renderer acquired: none, running, quit
    handle,            \* the document or message handle it opened: none, open, closed
    pending            \* the exception in flight while a finally clause runs, "" if none

driverVars == <<blobs, cfg, run, pc, idx, existing_outputs, category_counts, processed_count,
                fallback, pdf_path, tmpdir, store, localfs, logfile, console, hist, faults>>

ledgerVars == <<log_lines, failure_files, last_op, last_file, prev_files>>

libraryVars == <<disk, dst_dir_made, call, cpc, writer, results, invoked, at_entry,
                 embed_entry, ncalls, ext_arg, category_ret, app, handle, pending>>

vars == <<driverVars, ledgerVars, libraryVars>>

\* a function with the empty domain: an empty directory or container
EmptyDir == [x \in {} |-> x]

\* the current blob and the names main derives from it
Blob == blobs[idx]
relative_path(b) == DropFirst(b.name, Len(INPUT_PREFIX))
local_name(b) == PathName(b.name)
BlobExt(b) == Lower(PathSuffix(b.name))
BlobCategory(b) == get_category_for_extension(BlobExt(b))

\* the extension is kept and .pdf appended
target_pdf_name_KeepExt(b) == OUTPUT_PREFIX \o relative_path(b) \o DotPdf

\* main, lines 323-329: the destination blob name of blob b
target_pdf_name(b) ==
    The({ IF RFind(LastSegment(p), ".") # 0
          THEN OUTPUT_PREFIX \o RSplitDotHead(p) \o DotPdf
          ELSE OUTPUT_PREFIX \o p \o DotPdf : p \in {relative_path(b)} })

\* <stem>.pdf, the file name every renderer and the placeholder generator write
StemPdf(n) == PathStem(n) \o DotPdf

\* the local destination keeps the directories of the target name
LocalDest_KeepDirs(cat, target) == LocalDir \o <<"/">> \o target

\* save_pdf, lines 60-62: the local destination for a category and target name
LocalDest(cat, target) == LocalDir \o <<"/">> \o CategoryChars(cat) \o <<"/">> \o StemPdf(target)

\* main, lines 287-297: directory marker, zero-byte blob or excluded sub-path
IsFilteredOut(b) ==
    \/ EndsWith(b.name, <<"/">>)
    \/ b.size = 0
    \/ StartsWith(relative_path(b), ExcludedLogs)
    \/ StartsWith(relative_path(b), ExcludedMapping)

\* the limit is tested with > instead of >=
MaxFilesReached_OffByOne == cfg.max_files # NoMaxFiles /\ processed_count > cfg.max_files

\* main, line 300
MaxFilesReached == cfg.max_files # NoMaxFiles /\ processed_count >= cfg.max_files

\* main, line 309
ExtFiltered(b) == cfg.filter_extension # << >> /\ BlobExt(b) # Lower(cfg.filter_extension)

\* main, line 316
CapReached(b) == cfg.test_all # 0 /\ category_counts[BlobCategory(b)] >= cfg.test_all

\* main, line 356
Overwrite == cfg.force \/ cfg.overwrite

\* a log record; run and item are not part of the line, they tell which
\* invocation and which listing position emitted it
Rec(level, kind, b, cat, seq, dest, msg) ==
    [level |-> level, kind |-> kind, name |-> b, category |-> cat, seq |-> seq,
     dest |-> dest, msg |-> msg, run |-> run, item |-> idx]

\* a line about the run as a whole (no item)
RunNote(level, msg) ==
    [level |-> level, kind |-> "NOTE", name |-> << >>, category |-> "", seq |-> 0,
     dest |-> << >>, msg |-> msg, run |-> run, item |-> 0]

\* logger.<level>(...): both handlers see the records, the file handler filters
Emit(recs) ==
    /\ console' = console \o recs
    /\ logfile' = logfile \o SelectSeq(recs, FileHandlerAccepts)

Ev(e) == [run |-> run, item |-> idx, ev |-> e]

\* no call is in progress
NoCall == [op |-> "none", src |-> << >>, attach |-> FALSE, pdf_path |-> << >>]

\* no PDF is held in memory
NoContent == [kind |-> "none", pages |-> "", of |-> << >>, attach |-> << >>]

\* get_category_for_extension is not called
ClassifierNotRun ==
    /\ ext_arg = << >>
    /\ category_ret = ""

\* no renderer is running
RendererNotRun ==
    /\ app = "none"
    /\ handle = "none"
    /\ pending = ""

\* the library is not called: no file, no call, nothing classified
LibraryNotRun ==
    /\ ClassifierNotRun
    /\ RendererNotRun
    /\ disk = EmptyDir
    /\ dst_dir_made = FALSE
    /\ call = NoCall
    /\ cpc = "idle"
    /\ writer = NoContent
    /\ results = << >>
    /\ invoked = << >>
    /\ at_entry = EmptyDir
    /\ embed_entry = EmptyDir
    /\ ncalls = 0

\* the ledger is not run: no log lines read, no list file written
LedgerNotRun ==
    /\ log_lines = << >>
    /\ failure_files = EmptyDir
    /\ last_op = "none"
    /\ last_file = ""
    /\ prev_files = EmptyDir

Init ==
    /\ blobs \in Listings
    /\ cfg \in Configs
    /\ run = 0
    /\ pc = "idle"
    /\ idx = 0
    /\ existing_outputs = {}
    /\ category_counts = [c \in Categories |-> 0]
    /\ processed_count = 0
    /\ fallback = FALSE
    /\ pdf_path = << >>
    /\ tmpdir = EmptyDir
    /\ store = EmptyDir
    /\ localfs = EmptyDir
    /\ logfile = << >>
    /\ console = << >>
    /\ hist = << >>
    /\ faults = 0
    /\ LedgerNotRun
    /\ LibraryNotRun

\* the existing outputs are never listed: every run starts from an empty set
ListExistingOutputs_NotLoaded == {}

\* main, lines 267-271: the names listed under OUTPUT_PREFIX
ListExistingOutputs ==
    IF ~cfg.force /\ ~cfg.overwrite /\ ~cfg.local_output
    THEN { n \in DOMAIN store : StartsWith(n, OUTPUT_PREFIX) }
    ELSE {}

\* main, lines 243-283: one invocation starts: listing, existing outputs,
\* counters, scratch directory
StartRun ==
    /\ pc = "idle"
    /\ run + 1 \in Runs
    /\ run' = run + 1
    /\ existing_outputs' = ListExistingOutputs
    /\ LET r == run + 1
           note(l, m) == [RunNote(l, m) EXCEPT !.run = r]
       IN  Emit(IF ~cfg.force /\ ~cfg.overwrite /\ ~cfg.local_output
                THEN <<note("INFO", "loading_existing"), note("INFO", "found_existing")>>
                ELSE IF cfg.force THEN <<note("INFO", "force_mode")>>
                ELSE << >>)
    /\ category_counts' = [c \in Categories |-> 0]
    /\ processed_count' = 0
    /\ tmpdir' = EmptyDir
    /\ idx' = 1
    /\ fallback' = FALSE
    /\ pdf_path' = << >>
    /\ pc' = "loop"
    /\ UNCHANGED <<faults, blobs, cfg, store, localfs, hist>>
    /\ UNCHANGED <<ledgerVars, libraryVars>>

\* main, line 280 and the end of the for loop: the with block is left, the
\* scratch directory is removed, main returns
EndRun ==
    /\ pc = "loop"
    /\ idx > Len(blobs)
    /\ tmpdir' = EmptyDir
    /\ pc' = "idle"
    /\ UNCHANGED <<faults, blobs, cfg, run, idx, existing_outputs, category_counts, processed_count,
                   fallback, pdf_path, store, localfs, logfile, console, hist>>
    /\ UNCHANGED <<ledgerVars, libraryVars>>

\* the skipped blob is counted as processed
SkipFiltered_Counted ==
    /\ pc = "loop"
    /\ idx <= Len(blobs)
    /\ IsFilteredOut(Blob)
    /\ idx' = idx + 1
    /\ processed_count' = processed_count + 1
    /\ hist' = Append(hist, Ev("filtered"))
    /\ UNCHANGED <<faults, blobs, cfg, run, pc, existing_outputs, category_counts,
                   fallback, pdf_path, tmpdir, store, localfs, logfile, console>>
    /\ UNCHANGED <<ledgerVars, libraryVars>>

\* main, lines 287-297: continue
SkipFiltered ==
    /\ pc = "loop"
    /\ idx <= Len(blobs)
    /\ IsFilteredOut(Blob)
    /\ idx' = idx + 1
    /\ hist' = Append(hist, Ev("filtered"))
    /\ UNCHANGED <<faults, blobs, cfg, run, pc, existing_outputs, category_counts, processed_count,
                   fallback, pdf_path, tmpdir, store, localfs, logfile, console>>
    /\ UNCHANGED <<ledgerVars, libraryVars>>

\* main, lines 300-302: break, then the with block is left
HitMaxFiles ==
    /\ pc = "loop"
    /\ idx <= Len(blobs)
    /\ ~IsFilteredOut(Blob)
    /\ MaxFilesReached
    /\ Emit(<<RunNote("INFO", "max_files_reached")>>)
    /\ hist' = Append(hist, Ev("max_files"))
    /\ idx' = Len(blobs) + 1
    /\ tmpdir' = EmptyDir
    /\ pc' = "idle"
    /\ UNCHANGED <<faults, blobs, cfg, run, existing_outputs, category_counts, processed_count,
                   fallback, pdf_path, store, localfs>>
    /\ UNCHANGED <<ledgerVars, libraryVars>>

\* main, lines 309-310: continue
SkipExtFilter ==
    /\ pc = "loop"
    /\ idx <= Len(blobs)
    /\ ~IsFilteredOut(Blob)
    /\ ~MaxFilesReached
    /\ ExtFiltered(Blob)
    /\ idx' = idx + 1
    /\ hist' = Append(hist, Ev("ext_filtered"))
    /\ UNCHANGED <<faults, blobs, cfg, run, pc, existing_outputs, category_counts, processed_count,
                   fallback, pdf_path, tmpdir, store, localfs, logfile, console>>
    /\ UNCHANGED <<ledgerVars, libraryVars>>

\* main, lines 316-317: continue
SkipCap ==
    /\ pc = "loop"
    /\ idx <= Len(blobs)
    /\ ~IsFilteredOut(Blob)
    /\ ~MaxFilesReached
    /\ ~ExtFiltered(Blob)
    /\ CapReached(Blob)
    /\ idx' = idx + 1
    /\ hist' = Append(hist, Ev("capped"))
    /\ UNCHANGED <<faults, blobs, cfg, run, pc, existing_outputs, category_counts, processed_count,
                   fallback, pdf_path, tmpdir, store, localfs, logfile, console>>
    /\ UNCHANGED <<ledgerVars, libraryVars>>

\* main, lines 285-319: the blob passes every filter
PassesFilters(b) ==
    /\ ~IsFilteredOut(b)
    /\ ~MaxFilesReached
    /\ ~ExtFiltered(b)
    /\ ~CapReached(b)

\* main, line 332: the existence check
AlreadyConverted(b) == target_pdf_name(b) \in existing_outputs

\* the existence check comes first: a skipped item does not count
SkipExisting_NotCounted ==
    /\ pc = "loop"
    /\ idx <= Len(blobs)
    /\ PassesFilters(Blob)
    /\ AlreadyConverted(Blob)
    /\ Emit(<<Rec("DEBUG", "SKIP", Blob.name, BlobCategory(Blob),
                  category_counts[BlobCategory(Blob)], target_pdf_name(Blob), "already_exists")>>)
    /\ idx' = idx + 1
    /\ hist' = Append(hist, Ev("skip_existing"))
    /\ UNCHANGED <<faults, blobs, cfg, run, pc, existing_outputs, category_counts, processed_count,
                   fallback, pdf_path, tmpdir, store, localfs>>
    /\ UNCHANGED <<ledgerVars, libraryVars>>

\* main, lines 319-334: the category counter is incremented, the destination
\* exists: SKIP at DEBUG level, continue
SkipExisting ==
    /\ pc = "loop"
    /\ idx <= Len(blobs)
    /\ PassesFilters(Blob)
    /\ category_counts' = [category_counts EXCEPT ![BlobCategory(Blob)] = @ + 1]
    /\ AlreadyConverted(Blob)
    /\ Emit(<<Rec("DEBUG", "SKIP", Blob.name, BlobCategory(Blob),
                  category_counts[BlobCategory(Blob)] + 1, target_pdf_name(Blob), "already_exists")>>)
    /\ idx' = idx + 1
    /\ hist' = Append(hist, Ev("skip_existing"))
    /\ UNCHANGED <<faults, blobs, cfg, run, pc, existing_outputs, processed_count,
                   fallback, pdf_path, tmpdir, store, localfs>>
    /\ UNCHANGED <<ledgerVars, libraryVars>>

\* main, lines 319-336: the category counter is incremented, the destination
\* is not among the existing outputs: the try block is entered
BeginItem ==
    /\ pc = "loop"
    /\ idx <= Len(blobs)
    /\ PassesFilters(Blob)
    /\ category_counts' = [category_counts EXCEPT ![BlobCategory(Blob)] = @ + 1]
    /\ ~AlreadyConverted(Blob)
    /\ pc' = "download"
    /\ hist' = Append(hist, Ev("begin"))
    /\ UNCHANGED <<faults, blobs, cfg, run, idx, existing_outputs, processed_count,
                   fallback, pdf_path, tmpdir, store, localfs, logfile, console>>
    /\ UNCHANGED <<ledgerVars, libraryVars>>

\* the exception of the item is logged and ends the loop
ItemError_Abort(msg) ==
    /\ Emit(<<Rec("ERROR", "ERROR", Blob.name, BlobCategory(Blob),
                  category_counts[BlobCategory(Blob)], << >>, msg)>>)
    /\ processed_count' = processed_count + 1
    /\ idx' = idx
    /\ pc' = "idle"

\* main, lines 362-364: the except clause of the item: ERROR, count, next blob
ItemError(msg) ==
    /\ Emit(<<Rec("ERROR", "ERROR", Blob.name, BlobCategory(Blob),
                  category_counts[BlobCategory(Blob)], << >>, msg)>>)
    /\ processed_count' = processed_count + 1
    /\ idx' = idx + 1
    /\ pc' = "loop"

\* main, lines 338-340: the blob is downloaded into the scratch directory
DownloadOk ==
    /\ pc = "download"
    /\ tmpdir' = WriteFile(tmpdir, local_name(Blob), RawBytes(Blob.name))
    /\ pc' = "convert"
    /\ hist' = Append(hist, Ev("download_ok"))
    /\ UNCHANGED <<faults, blobs, cfg, run, idx, existing_outputs, category_counts, processed_count,
                   fallback, pdf_path, store, localfs, logfile, console>>
    /\ UNCHANGED <<ledgerVars, libraryVars>>

\* the download is tried again after a failure
DownloadFail_Retry ==
    /\ pc = "download"
    /\ faults < MaxFaults
    /\ faults' = faults + 1
    /\ hist' = Append(hist, Ev("download_fail"))
    /\ UNCHANGED <<blobs, cfg, run, pc, idx, existing_outputs, category_counts, processed_count,
                   fallback, pdf_path, tmpdir, store, localfs, logfile, console>>
    /\ UNCHANGED <<ledgerVars, libraryVars>>

\* main, lines 338 and 362-364: download_blob raises (network, credentials)
DownloadFail ==
    /\ pc = "download"
    /\ faults < MaxFaults
    /\ faults' = faults + 1
    /\ ItemError("transfer_failed")
    /\ hist' = Append(hist, Ev("download_fail"))
    /\ UNCHANGED <<blobs, cfg, run, existing_outputs, category_counts,
                   fallback, pdf_path, tmpdir, store, localfs>>
    /\ UNCHANGED <<ledgerVars, libraryVars>>

\* the source is rendered again instead of being copied
handle_pdf_Rerendered(d, src) ==
    [dir |-> WriteFile(d, StemPdf(src), RenderedPdf(d[src])), path |-> StemPdf(src)]

\* _handle_pdf, any2pdf.py lines 322-335: no-op when source and target path
\* coincide, a copy otherwise; the result is [dir, path]
handle_pdf(d, src) ==
    IF src = StemPdf(src)
    THEN [dir |-> d, path |-> src]
    ELSE [dir |-> WriteFile(d, StemPdf(src), d[src]), path |-> StemPdf(src)]

\* a renderer that succeeds (word, excel, ppt, image, html, msg, eml): the PDF
\* is written at <stem>.pdf, then the original is attached when asked
render_ok(d, src, attach) ==
    LET rendered == RenderedPdf(d[src])
    IN  [dir |-> WriteFile(d, StemPdf(src),
                           IF attach THEN attach_original_to_pdf(rendered, PathName(src), d[src])
                           ELSE rendered),
         path |-> StemPdf(src)]

\* whether convert_anything_to_pdf can raise for the file: an unsupported
\* extension always does, a PDF in place never does, a renderer may
ConvertMayFail(src) == RendererFor(PathSuffix(src)) # "pdf"
ConvertMayPass(src) == RendererFor(PathSuffix(src)) # "unsupported"

\* the message of the exception convert_anything_to_pdf raises
ConvertError(src) ==
    IF RendererFor(PathSuffix(src)) = "unsupported" THEN "unsupported_extension" ELSE "render_failed"

\* what a convert_anything_to_pdf that raises leaves in the directory: nothing
\* new when the routing or the renderer fails; the rendered PDF at <stem>.pdf
\* when the renderer succeeds and attach_original_to_pdf then raises
ConvertFailureLeaves(d, src) ==
    {d} \cup (IF ConvertMayPass(src) /\ ConvertMayFail(src)
              THEN {WriteFile(d, StemPdf(src), RenderedPdf(d[src]))}
              ELSE {})

\* main, lines 343-349: convert_anything_to_pdf returns
ConvertOk ==
    /\ pc = "convert"
    /\ ConvertMayPass(local_name(Blob))
    /\ LET res == IF RendererFor(PathSuffix(local_name(Blob))) = "pdf"
                  THEN handle_pdf(tmpdir, local_name(Blob))
                  ELSE render_ok(tmpdir, local_name(Blob), TRUE)
       IN  /\ tmpdir' = res.dir
           /\ pdf_path' = res.path
    /\ fallback' = FALSE
    /\ pc' = "save"
    /\ hist' = Append(hist, Ev("convert_ok"))
    /\ UNCHANGED <<faults, blobs, cfg, run, idx, existing_outputs, category_counts, processed_count,
                   store, localfs, logfile, console>>
    /\ UNCHANGED <<ledgerVars, libraryVars>>

\* _convert_html_to_pdf, any2pdf.py lines 364-388, called from main line 345:
\* Edge exits with code 0 without writing its output; dst_path.exists() is
\* true all the same, because an earlier item of the run left <stem>.pdf in
\* the scratch directory; the original is attached to that file, which is
\* returned (without such a file the renderer raises: ConvertFail)
ConvertOkStale ==
    /\ pc = "convert"
    /\ RendererFor(PathSuffix(local_name(Blob))) = "html"
    /\ StemPdf(local_name(Blob)) \in DOMAIN tmpdir
    /\ faults < MaxFaults
    /\ faults' = faults + 1
    /\ tmpdir' = WriteFile(tmpdir, StemPdf(local_name(Blob)),
                           attach_original_to_pdf(tmpdir[StemPdf(local_name(Blob))],
                                                  PathName(local_name(Blob)),
                                                  tmpdir[local_name(Blob)]))
    /\ pdf_path' = StemPdf(local_name(Blob))
    /\ fallback' = FALSE
    /\ pc' = "save"
    /\ hist' = Append(hist, Ev("convert_ok"))
    /\ UNCHANGED <<blobs, cfg, run, idx, existing_outputs, category_counts, processed_count,
                   store, localfs, logfile, console>>
    /\ UNCHANGED <<ledgerVars, libraryVars>>

\* main, lines 350-351: convert_anything_to_pdf raises, FALLBACK is logged
ConvertFail ==
    /\ pc = "convert"
    /\ ConvertMayFail(local_name(Blob))
    /\ IF ConvertMayPass(local_name(Blob))
       THEN faults < MaxFaults /\ faults' = faults + 1
       ELSE faults' = faults
    /\ Emit(<<Rec("WARNING", "FALLBACK", Blob.name, BlobCategory(Blob),
                  category_counts[BlobCategory(Blob)], << >>, ConvertError(local_name(Blob)))>>)
    /\ fallback' = FALSE
    /\ pc' = "placeholder"
    /\ hist' = Append(hist, Ev("convert_fail"))
    /\ tmpdir' \in ConvertFailureLeaves(tmpdir, local_name(Blob))
    /\ UNCHANGED <<blobs, cfg, run, idx, existing_outputs, category_counts, processed_count,
                   pdf_path, store, localfs>>
    /\ UNCHANGED <<ledgerVars, libraryVars>>

\* create_placeholder_pdf, any2pdf.py lines 543-562: the page is written
placeholder_written(d, src) == WriteFile(d, StemPdf(src), PlaceholderPage(src))

\* the placeholder is returned without the original attached
create_placeholder_pdf_NoAttach(d, src, attach) ==
    [dir |-> placeholder_written(d, src), path |-> StemPdf(src)]

\* create_placeholder_pdf, any2pdf.py lines 564-568: the original is attached
create_placeholder_pdf(d, src, attach) ==
    LET d1 == placeholder_written(d, src)
    IN  [dir |-> IF attach
                 THEN WriteFile(d1, StemPdf(src),
                                attach_original_to_pdf(d1[StemPdf(src)], PathName(src), d1[src]))
                 ELSE d1,
         path |-> StemPdf(src)]

\* main, lines 352-353: the placeholder is generated
PlaceholderOk ==
    /\ pc = "placeholder"
    /\ LET res == create_placeholder_pdf(tmpdir, local_name(Blob), TRUE)
       IN  /\ tmpdir' = res.dir
           /\ pdf_path' = res.path
    /\ fallback' = TRUE
    /\ pc' = "save"
    /\ hist' = Append(hist, Ev("placeholder_ok"))
    /\ UNCHANGED <<faults, blobs, cfg, run, idx, existing_outputs, category_counts, processed_count,
                   store, localfs, logfile, console>>
    /\ UNCHANGED <<ledgerVars, libraryVars>>

\* main, lines 352 and 362-364: create_placeholder_pdf raises while attaching
PlaceholderFail ==
    /\ pc = "placeholder"
    /\ faults < MaxFaults
    /\ faults' = faults + 1
    /\ tmpdir' = placeholder_written(tmpdir, local_name(Blob))
    /\ ItemError("placeholder_failed")
    /\ hist' = Append(hist, Ev("placeholder_fail"))
    /\ UNCHANGED <<blobs, cfg, run, existing_outputs, category_counts,
                   fallback, pdf_path, store, localfs>>
    /\ UNCHANGED <<ledgerVars, libraryVars>>

\* upload_blob replaces an existing blob whatever the overwrite flag says
UploadRefused_Never(target) == FALSE

\* save_pdf, lines 65-67: upload_blob refuses an existing blob without overwrite
UploadRefused(target) == target \in DOMAIN store /\ ~Overwrite

\* the OK record is written for a placeholder as well
OkRecords_Always(dest) ==
    <<Rec("INFO", "OK", Blob.name, BlobCategory(Blob),
          category_counts[BlobCategory(Blob)], dest, "")>>

\* main, line 359: the OK record, written for a real conversion only
OkRecords(dest) ==
    IF ~fallback
    THEN <<Rec("INFO", "OK", Blob.name, BlobCategory(Blob),
               category_counts[BlobCategory(Blob)], dest, "")>>
    ELSE << >>

\* main, lines 356-360 and save_pdf: the PDF is uploaded or copied
SaveOk ==
    /\ pc = "save"
    /\ IF cfg.local_output
       THEN /\ localfs' = WriteFile(localfs, LocalDest(BlobCategory(Blob), target_pdf_name(Blob)),
                                    tmpdir[pdf_path])
            /\ store' = store
            /\ Emit(OkRecords(LocalDest(BlobCategory(Blob), target_pdf_name(Blob))))
       ELSE /\ ~UploadRefused(target_pdf_name(Blob))
            /\ store' = WriteFile(store, target_pdf_name(Blob), tmpdir[pdf_path])
            /\ localfs' = localfs
            /\ Emit(OkRecords(target_pdf_name(Blob)))
    /\ processed_count' = processed_count + 1
    /\ idx' = idx + 1
    /\ pc' = "loop"
    /\ hist' = Append(hist, Ev("save_ok"))
    /\ UNCHANGED <<faults, blobs, cfg, run, existing_outputs, category_counts,
                   fallback, pdf_path, tmpdir>>
    /\ UNCHANGED <<ledgerVars, libraryVars>>

\* the OK record is written before save_pdf is called, which then raises
SaveFail_OkLoggedFirst ==
    /\ pc = "save"
    /\ IF ~cfg.local_output /\ UploadRefused(target_pdf_name(Blob))
       THEN faults' = faults
       ELSE faults < MaxFaults /\ faults' = faults + 1
    /\ Emit(OkRecords(IF cfg.local_output
                      THEN LocalDest(BlobCategory(Blob), target_pdf_name(Blob))
                      ELSE target_pdf_name(Blob))
            \o <<Rec("ERROR", "ERROR", Blob.name, BlobCategory(Blob),
                     category_counts[BlobCategory(Blob)], << >>, "transfer_failed")>>)
    /\ processed_count' = processed_count + 1
    /\ idx' = idx + 1
    /\ pc' = "loop"
    /\ hist' = Append(hist, Ev("save_fail"))
    /\ UNCHANGED <<blobs, cfg, run, existing_outputs, category_counts,
                   fallback, pdf_path, tmpdir, store, localfs>>
    /\ UNCHANGED <<ledgerVars, libraryVars>>

\* main, lines 357 and 362-364: save_pdf raises (blob exists, network, disk)
SaveFail ==
    /\ pc = "save"
    /\ IF ~cfg.local_output /\ UploadRefused(target_pdf_name(Blob))
       THEN faults' = faults
       ELSE faults < MaxFaults /\ faults' = faults + 1
    /\ ItemError(IF ~cfg.local_output /\ UploadRefused(target_pdf_name(Blob))
                 THEN "BlobAlreadyExists" ELSE "transfer_failed")
    /\ hist' = Append(hist, Ev("save_fail"))
    /\ UNCHANGED <<blobs, cfg, run, existing_outputs, category_counts,
                   fallback, pdf_path, tmpdir, store, localfs>>
    /\ UNCHANGED <<ledgerVars, libraryVars>>

Next ==
    \/ StartRun
    \/ EndRun
    \/ SkipFiltered
    \/ HitMaxFiles
    \/ SkipExtFilter
    \/ SkipCap
    \/ SkipExisting
    \/ BeginItem
    \/ DownloadOk
    \/ DownloadFail
    \/ ConvertOk
    \/ ConvertOkStale
    \/ ConvertFail
    \/ PlaceholderOk
    \/ PlaceholderFail
    \/ SaveOk
    \/ SaveFail

Spec == Init /\ [][Next]_vars

\* the driver's steps are taken one after the other until main returns
FairSpec == Spec /\ WF_vars(Next)

(***************************************************************************)
(* Vocabulary of the properties of the driver.                             *)
(***************************************************************************)
\* step e was taken for listing position i in invocation r
HasEv(r, i, e) == \E k \in 1..Len(hist) : hist[k] = [run |-> r, item |-> i, ev |-> e]

\* listing position i entered the try block in invocation r and has left it
ItemFinished(r, i) == HasEv(r, i, "begin") /\ (run > r \/ idx > i)

\* the kinds of the lines of migration.log written for position i in invocation r
FileRecords(r, i) == SelectSeq(logfile, LAMBDA x : x.run = r /\ x.item = i)
FileKinds(r, i) == The({ [k \in 1..Len(recs) |-> recs[k].kind] : recs \in {FileRecords(r, i)} })

\* the steps that touch the blob of a listing position
WorkEvents == {"begin", "download_ok", "download_fail", "convert_ok", "convert_fail",
               "placeholder_ok", "placeholder_fail", "save_ok", "save_fail"}

Items == 1..Len(blobs)

\* the invocation r has gone past listing position i
Passed(r, i) == run > r \/ (run = r /\ idx > i)

(***************************************************************************)
(* C1 (as stated).  Idempotence: with overwrite=false and no force flag,   *)
(* the second invocation performs no destination write and appends no OK   *)
(* entry, and every item that was eligible in the first invocation is      *)
(* skipped in the second.                                                  *)
(***************************************************************************)
C1_SecondRunDoesNothing ==
    (~cfg.force /\ ~cfg.overwrite) =>
        /\ \A k \in 1..Len(hist) : hist[k].run = 2 => hist[k].ev # "save_ok"
        /\ \A k \in 1..Len(logfile) : logfile[k].run = 2 => logfile[k].kind # "OK"
        /\ \A j \in Items : (HasEv(1, j, "begin") /\ Passed(2, j)) => HasEv(2, j, "skip_existing")

(***************************************************************************)
(* C1 (amended).  In upload mode with overwrite=false and no force flag,   *)
(* every item whose destination was written by the first invocation is     *)
(* skipped by the second (SKIP, no download, no conversion, no write, no   *)
(* line in migration.log), and no destination is written twice.           *)
(***************************************************************************)
C1_Idempotent ==
    (~cfg.force /\ ~cfg.overwrite /\ ~cfg.local_output) =>
        /\ \A j \in Items : HasEv(1, j, "save_ok") =>
              /\ \A e \in WorkEvents : ~HasEv(2, j, e)
              /\ FileRecords(2, j) = << >>
              /\ Passed(2, j) => HasEv(2, j, "skip_existing")
        /\ \A k, m \in 1..Len(hist) :
              (/\ hist[k].ev = "save_ok" /\ hist[m].ev = "save_ok"
               /\ target_pdf_name(blobs[hist[k].item]) = target_pdf_name(blobs[hist[m].item]))
              => k = m

\* the second invocation has ended after skipping an item the first one wrote
C1_Witness ==
    /\ ~cfg.force /\ ~cfg.overwrite /\ ~cfg.local_output
    /\ run = 2 /\ pc = "idle"
    /\ \E j \in Items : HasEv(1, j, "save_ok") /\ HasEv(2, j, "skip_existing")
    /\ \E j \in Items : HasEv(1, j, "download_fail") /\ HasEv(2, j, "save_ok")

(***************************************************************************)
(* C2 (as stated).  The records logged for a processed item have exactly   *)
(* one of three shapes: a single OK, a FALLBACK followed by an OK, or a    *)
(* single ERROR; a skipped item yields no OK, FALLBACK or ERROR record.    *)
(***************************************************************************)
C2_ThreeShapes ==
    \A r \in Runs : \A i \in Items :
        /\ ItemFinished(r, i) =>
              FileKinds(r, i) \in { <<"OK">>, <<"FALLBACK", "OK">>, <<"ERROR">> }
        /\ (Passed(r, i) /\ ~HasEv(r, i, "begin")) => FileKinds(r, i) = << >>

(***************************************************************************)
(* C2 (amended).  The records logged for a processed item have exactly one *)
(* of four shapes: a single OK (converted and saved), a single FALLBACK    *)
(* (placeholder saved, no OK follows), a FALLBACK followed by an ERROR     *)
(* (placeholder generation or save failed), or a single ERROR; a skipped   *)
(* item yields no OK, FALLBACK or ERROR record.                            *)
(***************************************************************************)
C2_FourShapes ==
    \A r \in Runs : \A i \in Items :
        /\ ItemFinished(r, i) =>
              /\ FileKinds(r, i) \in { <<"OK">>, <<"FALLBACK">>, <<"FALLBACK", "ERROR">>, <<"ERROR">> }
              /\ FileKinds(r, i) = <<"OK">> <=> (HasEv(r, i, "convert_ok") /\ HasEv(r, i, "save_ok"))
              /\ FileKinds(r, i) = <<"FALLBACK">> <=> (HasEv(r, i, "placeholder_ok") /\ HasEv(r, i, "save_ok"))
        /\ (Passed(r, i) /\ ~HasEv(r, i, "begin")) => FileKinds(r, i) = << >>

\* a placeholder was saved and the item is finished with FALLBACK alone
C2_Witness ==
    \E r \in Runs : \E i \in Items :
        /\ ItemFinished(r, i)
        /\ HasEv(r, i, "placeholder_ok") /\ HasEv(r, i, "save_ok")
        /\ FileKinds(r, i) = <<"FALLBACK">>

(***************************************************************************)
(* C3 (as stated).  Every item that reaches a terminal outcome causes      *)
(* exactly one line at level INFO or above in the log for that item,       *)
(* whatever steps succeed or fail.                                         *)
(***************************************************************************)
C3_ExactlyOneLine ==
    \A r \in Runs : \A i \in Items :
        ItemFinished(r, i) => Len(FileRecords(r, i)) = 1

(***************************************************************************)
(* C3 (amended).  Every item that reaches a terminal outcome has one line  *)
(* at level INFO or above in the log, except an item whose primary         *)
(* conversion failed and whose placeholder generation or save then failed  *)
(* as well, which has two (the FALLBACK warning, then the ERROR).          *)
(***************************************************************************)
C3_OneOrTwoLines ==
    \A r \in Runs : \A i \in Items :
        ItemFinished(r, i) =>
            LET twice == /\ HasEv(r, i, "convert_fail")
                         /\ (HasEv(r, i, "placeholder_fail") \/ HasEv(r, i, "save_fail"))
            IN  /\ Len(FileRecords(r, i)) = IF twice THEN 2 ELSE 1
                /\ \A k \in 1..Len(FileRecords(r, i)) :
                      LevelNo(FileRecords(r, i)[k].level) >= LevelNo("INFO")

\* an item is finished with two lines, another one with one line
C3_Witness ==
    /\ \E r \in Runs : \E i \in Items : ItemFinished(r, i) /\ Len(FileRecords(r, i)) = 2
    /\ \E r \in Runs : \E i \in Items :
          ItemFinished(r, i) /\ HasEv(r, i, "convert_ok") /\ Len(FileRecords(r, i)) = 1

(***************************************************************************)
(* The state right after the driver has finished an item.                  *)
(***************************************************************************)
JustFinished(r, i) ==
    /\ Len(hist) > 0
    /\ hist[Len(hist)].run = r /\ hist[Len(hist)].item = i
    /\ hist[Len(hist)].ev \in {"download_fail", "placeholder_fail", "save_ok", "save_fail"}

\* where save_pdf puts the PDF of blob b
Destination(b) ==
    IF cfg.local_output THEN LocalDest(BlobCategory(b), target_pdf_name(b)) ELSE target_pdf_name(b)

\* the files of the target location
Target == IF cfg.local_output THEN localfs ELSE store

\* c is a placeholder PDF for blob b with b's bytes embedded
IsPlaceholderOf(c, b) ==
    /\ c.kind = "pdf" /\ c.pages = "placeholder" /\ c.of = local_name(b)
    /\ \E k \in 1..Len(c.attach) :
          c.attach[k] = [name |-> local_name(b), bytes |-> RawBytes(b.name)]

(***************************************************************************)
(* C4 (as stated).  Fallback guarantee: for every item whose primary       *)
(* conversion fails, after the driver finishes that item a placeholder PDF *)
(* exists at the item's destination and embeds the original bytes.         *)
(***************************************************************************)
C4_PlaceholderAlways ==
    \A r \in Runs : \A i \in Items :
        (HasEv(r, i, "convert_fail") /\ JustFinished(r, i)) =>
            /\ target_pdf_name(blobs[i]) \in DOMAIN store
            /\ IsPlaceholderOf(store[target_pdf_name(blobs[i])], blobs[i])

(***************************************************************************)
(* C4 (amended).  For every item whose primary conversion fails and whose  *)
(* placeholder generation and save then succeed (no ERROR record for the   *)
(* item), after the driver finishes that item a placeholder PDF exists at  *)
(* the destination save_pdf reports (the target blob in upload mode, the   *)
(* file <local-output>/<category>/<stem>.pdf in local mode) and embeds the *)
(* original bytes.  When placeholder generation or the save fails, the     *)
(* item ends with FALLBACK followed by ERROR and nothing is saved for it.  *)
(***************************************************************************)
C4_PlaceholderWhenSaved ==
    \A r \in Runs : \A i \in Items :
        (HasEv(r, i, "convert_fail") /\ JustFinished(r, i)) =>
            IF HasEv(r, i, "save_ok")
            THEN /\ Destination(blobs[i]) \in DOMAIN Target
                 /\ IsPlaceholderOf(Target[Destination(blobs[i])], blobs[i])
                 /\ "ERROR" \notin { FileKinds(r, i)[k] : k \in 1..Len(FileKinds(r, i)) }
            ELSE FileKinds(r, i) = <<"FALLBACK", "ERROR">>

\* a supported file whose renderer failed has just been saved as a placeholder
C4_Witness ==
    \E r \in Runs : \E i \in Items :
        /\ HasEv(r, i, "convert_fail") /\ JustFinished(r, i) /\ HasEv(r, i, "save_ok")
        /\ BlobCategory(blobs[i]) # "attachment"
        /\ ~cfg.local_output
        /\ IsPlaceholderOf(store[target_pdf_name(blobs[i])], blobs[i])

(***************************************************************************)
(* C5.  Per-item failure isolation: a failure of download, primary         *)
(* conversion, placeholder generation or upload for one item never stops   *)
(* the batch: when an invocation has ended, every listing position was     *)
(* examined (filtered, skipped or processed to a terminal outcome) unless  *)
(* the max-files limit broke the loop at or before it, and every           *)
(* invocation that starts does end.                                        *)
(***************************************************************************)
RunEnded(r) == run > r \/ (run = r /\ pc = "idle")

Examined(r, i) ==
    \/ \E e \in {"filtered", "ext_filtered", "capped", "skip_existing"} : HasEv(r, i, e)
    \/ /\ HasEv(r, i, "begin")
       /\ \E e \in {"download_fail", "placeholder_fail", "save_ok", "save_fail"} : HasEv(r, i, e)

C5_BatchContinues ==
    \A r \in Runs : RunEnded(r) =>
        \A i \in Items : Examined(r, i) \/ \E m \in 1..i : HasEv(r, m, "max_files")

C5_Isolation ==
    /\ []C5_BatchContinues
    /\ \A r \in Runs : (run = r) ~> (run = r /\ pc = "idle")

\* an invocation has ended in which an item failed and a later item was saved
C5_Witness ==
    /\ pc = "idle" /\ run >= 1
    /\ \E i, j \in Items :
          /\ i < j
          /\ \E e \in {"download_fail", "placeholder_fail", "save_fail"} : HasEv(run, i, e)
          /\ HasEv(run, j, "convert_fail") /\ HasEv(run, j, "save_ok")

(***************************************************************************)
(* C6 (as stated).  Existence-check skip: when an item's computed          *)
(* destination already exists in the target location and neither the force *)
(* flag nor the overwrite policy is set, the driver does not download,     *)
(* convert or upload that item and writes no record for it to the run log. *)
(***************************************************************************)
C6_SkipWheneverExists ==
    (~cfg.force /\ ~cfg.overwrite) =>
        /\ pc = "download" => Destination(Blob) \notin DOMAIN Target
        /\ \A r \in Runs : \A i \in Items : HasEv(r, i, "skip_existing") => FileRecords(r, i) = << >>

(***************************************************************************)
(* C6 (amended).  In upload mode, when an item's computed destination      *)
(* already existed in the target location when the invocation started and  *)
(* neither the force flag nor the overwrite policy is set, the driver does *)
(* not download, convert or upload that item and writes no record for it   *)
(* to the run log: the SKIP record is emitted at DEBUG level, which the    *)
(* console shows and the log file handler drops.                           *)
(***************************************************************************)
ExistedAtStart(r, t) ==
    \E k \in 1..Len(hist) :
        /\ hist[k].ev = "save_ok" /\ hist[k].run < r
        /\ target_pdf_name(blobs[hist[k].item]) = t

C6_SkipWhenExistedAtStart ==
    (~cfg.force /\ ~cfg.overwrite /\ ~cfg.local_output) =>
        \A r \in Runs : \A i \in Items :
            ExistedAtStart(r, target_pdf_name(blobs[i])) =>
                /\ \A e \in WorkEvents : ~HasEv(r, i, e)
                /\ FileRecords(r, i) = << >>
                /\ HasEv(r, i, "skip_existing") =>
                      \E k \in 1..Len(console) :
                          /\ console[k].run = r /\ console[k].item = i
                          /\ console[k].kind = "SKIP" /\ console[k].level = "DEBUG"
                          /\ console[k].dest = target_pdf_name(blobs[i])

\* an item was skipped because another source had written its destination
C6_Witness ==
    /\ ~cfg.force /\ ~cfg.overwrite /\ ~cfg.local_output
    /\ \E i, j \in Items :
          /\ i # j
          /\ HasEv(1, j, "save_ok") /\ HasEv(1, i, "save_fail")
          /\ target_pdf_name(blobs[i]) = target_pdf_name(blobs[j])
          /\ HasEv(2, i, "skip_existing")
          /\ FileRecords(2, i) = << >>

(***************************************************************************)
(* C10.  For the listing [a/doc.docx, a/img.png, a/mystery.xyz] under the  *)
(* source prefix, with destination prefix out/, the target names are       *)
(* out/a/doc.pdf and out/a/img.pdf, and a/mystery.xyz is never converted:  *)
(* its conversion always raises the unsupported-extension error, which is  *)
(* logged, and no rendered PDF is produced for it anywhere.                *)
(***************************************************************************)
OutADocPdf == <<"o","u","t","/","a","/","d","o","c",".","p","d","f">>
OutAImgPdf == <<"o","u","t","/","a","/","i","m","g",".","p","d","f">>
OutAMysteryPdf == <<"o","u","t","/","a","/","m","y","s","t","e","r","y",".","p","d","f">>
MysteryXyz == <<"m","y","s","t","e","r","y",".","x","y","z">>

\* the contents held by the scratch directory and both target locations
AllContents ==
    { store[n] : n \in DOMAIN store } \cup { localfs[n] : n \in DOMAIN localfs }
    \cup { tmpdir[n] : n \in DOMAIN tmpdir }

\* the PDF c was made from the blob b: rendered from it, or its placeholder
MadeFrom(c, b) ==
    \/ c.kind = "pdf" /\ c.pages = "rendered" /\ c.of = b.name
    \/ IsPlaceholderOf(c, b)

MaxLogLen == 2

\* the literal source prefix of ERROR_PATTERN and OK_PATTERN
MEDICAL_FILES == <<"M","e","d","i","c","a","l","F","i","l","e","s","/">>
OK_MARK == <<" ","O","K"," ">>
ARROW == <<" ","-",">">>
KW_ERROR == <<"E","R","R","O","R">>
KW_FALLBACK == <<"F","A","L","L","B","A","C","K">>
BLOB_ALREADY_EXISTS == <<"B","l","o","b","A","l","r","e","a","d","y","E","x","i","s","t","s">>

\* the character classes \d, \w and \s of the patterns
Digits == {"0","1","2","3","4","5","6","7","8","9"}
WordChars ==
    { LowerChars[i] : i \in 1..Len(LowerChars) } \cup { UpperChars[i] : i \in 1..Len(UpperChars) }
    \cup Digits \cup {"_"}
Whitespace == {" "}

\* the categories in the order of the dictionary, each with its patterns
CATEGORY_ORDER ==
    << "network_timeout", "auth_expired", "msg_com_error", "password_protected",
       "corrupt_image", "corrupt_office", "unsupported_format" >>

CATEGORIES ==
    [ network_timeout |->
          << <<"F","a","i","l","e","d"," ","t","o"," ","r","e","s","o","l","v","e">>,
             <<"R","e","a","d"," ","t","i","m","e","d"," ","o","u","t">>,
             <<"g","e","t","a","d","d","r","i","n","f","o"," ","f","a","i","l","e","d">> >>,
      auth_expired |->
          << <<"a","z"," ","l","o","g","i","n">> >>,
      msg_com_error |->
          << <<"C","a","l","l"," ","w","a","s"," ","r","e","j","e","c","t","e","d"," ","b","y"," ","c","a","l","l","e","e">>,
             <<"S","e","r","v","e","r"," ","e","x","e","c","u","t","i","o","n"," ","f","a","i","l","e","d">>,
             <<"O","p","e","n","S","h","a","r","e","d","I","t","e","m">>,
             <<"G","e","t","N","a","m","e","s","p","a","c","e">> >>,
      password_protected |->
          << <<"P","a","s","s","w","o","r","d"," ","p","r","o","t","e","c","t","e","d"," ","f","i","l","e">> >>,
      corrupt_image |->
          << <<"c","a","n","n","o","t"," ","i","d","e","n","t","i","f","y"," ","i","m","a","g","e"," ","f","i","l","e">>,
             <<"i","m","a","g","e"," ","f","i","l","e"," ","i","s"," ","t","r","u","n","c","a","t","e","d">> >>,
      corrupt_office |->
          << <<"O","f","f","i","c","e"," ","h","a","s"," ","d","e","t","e","c","t","e","d"," ","a"," ","p","r","o","b","l","e","m">> >>,
      unsupported_format |->
          << <<"U","n","s","u","p","p","o","r","t","e","d"," ","f","i","l","e"," ","e","x","t","e","n","s","i","o","n">> >> ]

\* categorize_error returns None
NoCategory == "None"

\* no match, or an empty path: both fail the truth test of lines 101 and 114
NoPath == << >>

\* t occurs in s at position p
StartsAt(s, t, p) == p >= 1 /\ p + Len(t) - 1 <= Len(s) /\ SubSeq(s, p, p + Len(t) - 1) = t

\* the position after the longest run of characters of class C that starts at p
RunEnd(s, C, p) ==
    CHOOSE q \in p..(Len(s) + 1) :
        /\ \A j \in p..(q - 1) : s[j] \in C
        /\ q = Len(s) + 1 \/ s[q] \notin C

\* the first position >= p at which t occurs in s, 0 if there is none
FindFrom(s, t, p) ==
    IF \E i \in p..Len(s) : StartsAt(s, t, i)
    THEN CHOOSE i \in p..Len(s) : StartsAt(s, t, i) /\ \A j \in p..(i - 1) : ~StartsAt(s, t, j)
    ELSE 0

\* s.strip()
Strip(s) ==
    IF \A i \in 1..Len(s) : s[i] \in Whitespace THEN << >>
    ELSE LET a == CHOOSE i \in 1..Len(s) : s[i] \notin Whitespace /\ \A j \in 1..(i - 1) : s[j] \in Whitespace
             b == CHOOSE i \in 1..Len(s) : s[i] \notin Whitespace /\ \A j \in (i + 1)..Len(s) : s[j] \in Whitespace
         IN  SubSeq(s, a, b)

\* OK_PATTERN matched at position p: group 1, NoPath when there is no match.
\* ' OK ', \w+ and \d+ (each the whole run, a space must follow), the literal
\* prefix, then .+? up to the first ' ->' that leaves it at least one character
ok_match_at(line, p) ==
    IF ~StartsAt(line, OK_MARK, p) THEN NoPath
    ELSE LET w == p + Len(OK_MARK)
             we == RunEnd(line, WordChars, w)
         IN  IF we = w \/ ~StartsAt(line, <<" ">>, we) THEN NoPath
             ELSE LET d == we + 1
                      de == RunEnd(line, Digits, d)
                  IN  IF de = d \/ ~StartsAt(line, <<" ">>, de) THEN NoPath
                      ELSE LET m == de + 1
                               a == FindFrom(line, ARROW, m + Len(MEDICAL_FILES) + 1)
                           IN  IF ~StartsAt(line, MEDICAL_FILES, m) \/ a = 0 THEN NoPath
                               ELSE SubSeq(line, m, a - 1)

\* ERROR_PATTERN matched at position p: group 1, NoPath when there is no match.
\* The keyword, \s+, the literal prefix, then [^:]+? : the shortest non-empty
\* text such that only whitespace separates it from the first colon
error_match_at(line, p) ==
    LET k == IF StartsAt(line, KW_ERROR, p) THEN p + Len(KW_ERROR)
             ELSE IF StartsAt(line, KW_FALLBACK, p) THEN p + Len(KW_FALLBACK)
             ELSE 0
    IN  IF k = 0 THEN NoPath
        ELSE LET m == RunEnd(line, Whitespace, k)
                 g == m + Len(MEDICAL_FILES)
                 c == FindFrom(line, <<":">>, g)
             IN  IF m = k \/ ~StartsAt(line, MEDICAL_FILES, m) \/ c <= g THEN NoPath
                 ELSE LET e == CHOOSE e \in g..(c - 1) :
                                   /\ \A j \in (e + 1)..(c - 1) : line[j] \in Whitespace
                                   /\ \A f \in g..(e - 1) : \E j \in (f + 1)..(c - 1) : line[j] \notin Whitespace
                      IN  SubSeq(line, m, e)

\* the leftmost of a non-empty set of positions
Leftmost(P) == CHOOSE p \in P : \A q \in P : p <= q

\* extract_success_path, lines 58-63: OK_PATTERN.search(line), group 1, strip
extract_success_path(line) ==
    LET P == { p \in 1..Len(line) : ok_match_at(line, p) # NoPath }
    IN  IF P = {} THEN NoPath ELSE Strip(ok_match_at(line, Leftmost(P)))

\* extract_error_path, lines 66-71: ERROR_PATTERN.search(line), group 1, strip
extract_error_path(line) ==
    LET P == { p \in 1..Len(line) : error_match_at(line, p) # NoPath }
    IN  IF P = {} THEN NoPath ELSE Strip(error_match_at(line, Leftmost(P)))

\* 'pattern in line' for one of the patterns of category c
MatchesCategory(line, c) ==
    \E i \in 1..Len(CATEGORIES[c]) : Contains(line, CATEGORIES[c][i])

\* categorize_error, lines 79-83: the loop over the dictionary from entry k on
RECURSIVE categorize_from(_, _)
categorize_from(line, k) ==
    IF k > Len(CATEGORY_ORDER) THEN NoCategory
    ELSE IF MatchesCategory(line, CATEGORY_ORDER[k]) THEN CATEGORY_ORDER[k]
    ELSE categorize_from(line, k + 1)

\* the duplicate-write marker is not looked for
categorize_error_NoBenignCheck(line) == categorize_from(line, 1)

\* categorize_error, lines 74-83
categorize_error(line) ==
    IF Contains(line, BLOB_ALREADY_EXISTS) THEN NoCategory
    ELSE categorize_from(line, 1)

\* parse_log, lines 99-103: the success set
parse_log_successes(lines) ==
    { extract_success_path(lines[k]) :
        k \in { j \in 1..Len(lines) : Contains(lines[j], OK_MARK) } } \ {NoPath}

\* parse_log, lines 99-111: line k is looked at as a failure of category c
CountsAsFailure(lines, k, c) ==
    /\ ~Contains(lines[k], OK_MARK)
    /\ Contains(lines[k], KW_ERROR) \/ Contains(lines[k], KW_FALLBACK)
    /\ categorize_error(lines[k]) = c

\* parse_log, lines 105-115: the failures dictionary; a category is a key only
\* when a path was added to it
parse_log_failures(lines) ==
    LET paths(c) == { extract_error_path(lines[k]) :
                        k \in { j \in 1..Len(lines) : CountsAsFailure(lines, j, c) } } \ {NoPath}
        keys == { CATEGORY_ORDER[i] : i \in 1..Len(CATEGORY_ORDER) }
    IN  [c \in { d \in keys : paths(d) # {} } |-> paths(c)]

\* the file name write_failure_lists gives a category, line 123
ListFileName(c) == "failed_" \o c \o ".txt"

\* write_failure_lists, lines 120-127: one file per category of the dictionary
write_failure_lists(files, failures) ==
    [f \in DOMAIN files \cup { ListFileName(c) : c \in DOMAIN failures } |->
        IF \E c \in DOMAIN failures : f = ListFileName(c)
        THEN failures[CHOOSE c \in DOMAIN failures : f = ListFileName(c)]
        ELSE files[f]]

\* the names the lines of the log are about: two under the prefix of the
\* patterns, one under the source prefix of the driver's configuration
NAME_A == <<"M","e","d","i","c","a","l","F","i","l","e","s","/","a",".","d","o","c","x">>
NAME_B == <<"M","e","d","i","c","a","l","F","i","l","e","s","/","b",".","x","y","z">>
NAME_S == INPUT_PREFIX \o <<"a","/","d","o","c",".","d","o","c","x">>
LedgerNames == {NAME_A, NAME_B, NAME_S}

\* the texts of the exceptions that end up in FALLBACK and ERROR lines
E_UNSUPPORTED == <<"U","n","s","u","p","p","o","r","t","e","d"," ","f","i","l","e"," ","e","x","t","e","n","s","i","o","n">>
E_TIMEOUT == <<"R","e","a","d"," ","t","i","m","e","d"," ","o","u","t">>
E_LOGIN_TIMEOUT == <<"a","z"," ","l","o","g","i","n",":"," ","R","e","a","d"," ","t","i","m","e","d"," ","o","u","t">>
E_EXISTS == <<"B","l","o","b","A","l","r","e","a","d","y","E","x","i","s","t","s">>
E_EXISTS_TIMEOUT == <<"B","l","o","b","A","l","r","e","a","d","y","E","x","i","s","t","s"," ","R","e","a","d"," ","t","i","m","e","d"," ","o","u","t">>
E_DISK == <<"d","i","s","k"," ","f","u","l","l">>
ErrorTexts == {E_TIMEOUT, E_LOGIN_TIMEOUT, E_EXISTS, E_EXISTS_TIMEOUT, E_DISK}
FallbackTexts == {E_UNSUPPORTED}

\* the file handler's format, migrate_blobs_to_pdf.py line 53
ASCTIME == <<"1","0",":","0","0">>
FormatLine(levelname, message) == ASCTIME \o <<" ">> \o levelname \o <<" ">> \o message

\* the lines main writes, migrate_blobs_to_pdf.py lines 359, 351 and 363
OkLine(name) ==
    FormatLine(<<"I","N","F","O">>, <<"O","K"," ","w","o","r","d"," ","1"," ">> \o name \o <<" ","-",">"," ","o","u","t","/","x",".","p","d","f">>)
FallbackLine(name, e) ==
    FormatLine(<<"W","A","R","N","I","N","G">>, <<"F","A","L","L","B","A","C","K"," ">> \o name \o <<" ",":"," ">> \o e)
ErrorLine(name, e) ==
    FormatLine(<<"E","R","R","O","R">>, <<"E","R","R","O","R"," ">> \o name \o <<" ",":"," ">> \o e)

\* the lines a log is made of
LinePool ==
    { OkLine(n) : n \in LedgerNames }
    \cup { FallbackLine(n, E_UNSUPPORTED) : n \in {NAME_A, NAME_S} }
    \cup { ErrorLine(NAME_A, e) : e \in {E_LOGIN_TIMEOUT, E_DISK} }
    \cup { ErrorLine(NAME_B, e) : e \in {E_TIMEOUT, E_EXISTS, E_EXISTS_TIMEOUT} }

\* a list file made by hand and given to --update
USER_LIST == "retry.txt"

\* the driver is not running while the ledger is used
DriverNotRun ==
    /\ blobs = << >>
    /\ cfg = [force |-> FALSE, overwrite |-> FALSE, local_output |-> FALSE,
              max_files |-> NoMaxFiles, test_all |-> 0, filter_extension |-> << >>]
    /\ run = 0
    /\ pc = "idle"
    /\ idx = 0
    /\ existing_outputs = {}
    /\ category_counts = [c \in Categories |-> 0]
    /\ processed_count = 0
    /\ fallback = FALSE
    /\ pdf_path = << >>
    /\ tmpdir = EmptyDir
    /\ store = EmptyDir
    /\ localfs = EmptyDir
    /\ logfile = << >>
    /\ console = << >>
    /\ hist = << >>
    /\ faults = 0

InitLedger ==
    /\ DriverNotRun
    /\ LibraryNotRun
    /\ log_lines = << >>
    /\ failure_files = (USER_LIST :> LedgerNames)
    /\ last_op = "none"
    /\ last_file = ""
    /\ prev_files = (USER_LIST :> LedgerNames)

\* a later run of the driver appends a line to the log
AppendLine ==
    /\ Len(log_lines) < MaxLogLen
    /\ \E l \in LinePool : log_lines' = Append(log_lines, l)
    /\ last_op' = "append"
    /\ last_file' = ""
    /\ prev_files' = failure_files
    /\ UNCHANGED failure_files
    /\ UNCHANGED <<driverVars, libraryVars>>

\* main, lines 157-162: --extract
Extract ==
    /\ failure_files' = write_failure_lists(failure_files, parse_log_failures(log_lines))
    /\ last_op' = "extract"
    /\ last_file' = ""
    /\ prev_files' = failure_files
    /\ UNCHANGED log_lines
    /\ UNCHANGED <<driverVars, libraryVars>>

\* main, lines 164-179: --update FILE
Update ==
    \E f \in DOMAIN failure_files :
        /\ LET successes == parse_log_successes(log_lines)
               current_failures == { Strip(n) : n \in failure_files[f] } \ { << >> }
               remaining == current_failures \ successes
           IN  failure_files' = [failure_files EXCEPT ![f] = remaining]
        /\ last_op' = "update"
        /\ last_file' = f
        /\ prev_files' = failure_files
        /\ UNCHANGED log_lines
        /\ UNCHANGED <<driverVars, libraryVars>>

NextLedger ==
    \/ AppendLine
    \/ Extract
    \/ Update

SpecLedger == InitLedger /\ [][NextLedger]_vars

(***************************************************************************)
(* Vocabulary of the ledger properties: what a line of the log says, by    *)
(* the format the driver writes it in.                                     *)
(***************************************************************************)
IsOkLineFor(l, n) == l = OkLine(n)

IsFailureLineFor(l, n) ==
    \/ \E e \in FallbackTexts : l = FallbackLine(n, e)
    \/ \E e \in ErrorTexts : l = ErrorLine(n, e)

\* the order of the categories as the classification rule states it
StatedOrder ==
    << "network_timeout", "auth_expired", "msg_com_error", "password_protected",
       "corrupt_image", "corrupt_office", "unsupported_format" >>

\* the first category of the stated order one of whose patterns occurs in
\* the line; none for a line with the duplicate-write marker or no pattern
FirstCategory(l) ==
    IF Contains(l, BLOB_ALREADY_EXISTS) \/ \A i \in 1..Len(StatedOrder) : ~MatchesCategory(l, StatedOrder[i])
    THEN NoCategory
    ELSE StatedOrder[CHOOSE i \in 1..Len(StatedOrder) :
                        /\ MatchesCategory(l, StatedOrder[i])
                        /\ \A j \in 1..(i - 1) : ~MatchesCategory(l, StatedOrder[j])]

\* a failure line for n is followed later in the log by an OK line for n
FailedThenOk(n) ==
    \E i, j \in 1..Len(log_lines) :
        i < j /\ IsFailureLineFor(log_lines[i], n) /\ IsOkLineFor(log_lines[j], n)

\* the same, the failure line being one that is put into a category
CategorizedThenOk(n) ==
    \E i, j \in 1..Len(log_lines) :
        /\ i < j /\ IsFailureLineFor(log_lines[i], n) /\ IsOkLineFor(log_lines[j], n)
        /\ FirstCategory(log_lines[i]) # NoCategory

HasOkLine(n) == \E j \in 1..Len(log_lines) : IsOkLineFor(log_lines[j], n)

\* the names in the list file of category c, none when there is no such file
Listed(c) ==
    IF ListFileName(c) \in DOMAIN failure_files THEN failure_files[ListFileName(c)] ELSE {}

(***************************************************************************)
(* C7.  Ledger pruning: for any log in which a FALLBACK or ERROR line for  *)
(* a name is followed later by an OK line for the same name, --update      *)
(* removes that name from a failure list that contained it, and every name *)
(* of the list that has no OK line in the log stays in the list.           *)
(***************************************************************************)
C7_PruneRemovesSucceeded ==
    last_op = "update" =>
        \A n \in prev_files[last_file] :
            /\ FailedThenOk(n) => n \notin failure_files[last_file]
            /\ ~HasOkLine(n) => n \in failure_files[last_file]

(***************************************************************************)
(* C8.  The lists written by --extract exclude every file that was later   *)
(* processed successfully: a name with a categorizable FALLBACK or ERROR   *)
(* line followed by an OK line for the same name is in no list written by  *)
(* the extraction.                                                         *)
(***************************************************************************)
C8_ExtractExcludesSucceeded ==
    last_op = "extract" =>
        \A n \in LedgerNames :
            CategorizedThenOk(n) => \A i \in 1..Len(StatedOrder) : n \notin Listed(StatedOrder[i])

DirPart(p) == SubSeq(p, 1, RFind(p, "/"))

\* a file name with its extension (the part from the last dot) replaced by
\* .pdf, or .pdf appended when the name has no dot
WithPdfExtension(n) ==
    IF RFind(n, ".") # 0 THEN SubSeq(n, 1, RFind(n, ".") - 1) \o DotPdf ELSE n \o DotPdf

\* the relative path of blob b with only the extension of its last segment changed
PreservedRelative(b) ==
    DirPart(relative_path(b)) \o WithPdfExtension(LastSegment(relative_path(b)))

\* the items the driver has saved so far in any run
SavedItems == { i \in Items : \E r \in Runs : HasEv(r, i, "save_ok") }

\* the destinations named by the OK records of item i
OkDestinations(i) ==
    { console[k].dest : k \in { j \in 1..Len(console) :
                                  console[j].kind = "OK" /\ console[j].item = i } }

EventsOf(r, i) == { hist[k].ev : k \in { j \in 1..Len(hist) : hist[j].run = r /\ hist[j].item = i } }

\* the records any handler has seen for item i in run r (every level)
ConsoleRecords(r, i) == SelectSeq(console, LAMBDA x : x.run = r /\ x.item = i)

(***************************************************************************)
(* C12.  Filter skip: an item that is a directory marker (name ends in     *)
(* "/"), has size zero, or whose relative path starts with Logs/ or        *)
(* Mapping Tables/ is skipped entirely: it is never downloaded, converted  *)
(* or saved, no log record of any level is written for it, nothing exists  *)
(* at its destination, and the step that passes over it changes neither    *)
(* the processed count nor any per-category counter nor any file.          *)
(***************************************************************************)
C12_FilteredSkippedEntirely ==
    /\ [](\A r \in Runs : \A i \in Items :
             IsFilteredOut(blobs[i]) =>
                /\ EventsOf(r, i) \subseteq {"filtered"}
                /\ ConsoleRecords(r, i) = << >>
                /\ FileRecords(r, i) = << >>
                /\ Destination(blobs[i]) \notin DOMAIN Target)
    /\ [][(pc = "loop" /\ idx \in Items /\ IsFilteredOut(blobs[idx])) =>
             /\ idx' = idx + 1
             /\ UNCHANGED <<processed_count, category_counts, store, localfs, tmpdir,
                            logfile, console, existing_outputs>>]_vars

\* a zero-byte directory marker and a blob under Logs/ have both been passed
\* over, or one of them after an item that was processed
C12_Witness ==
    \E r \in Runs : \E i \in Items :
        /\ HasEv(r, i, "filtered")
        /\ \E j \in Items : j # i /\
              (HasEv(r, j, "filtered") \/ HasEv(r, j, "save_ok"))
        /\ Passed(r, i)


\* the items of category c that reach the cap test, in listing order
Queued(c) == { i \in Items : ~IsFilteredOut(blobs[i]) /\ BlobCategory(blobs[i]) = c }

\* the first n members of the index set S
FirstOf(S, n) == { i \in S : Cardinality({ j \in S : j < i }) < n }

(***************************************************************************)
(* C13 (as stated).  Per-category cap: in a run with a cap of N and more   *)
(* than N queued items of a category, the items of that category the       *)
(* driver processes (downloads) are exactly the first N in listing order,  *)
(* and every later item of the category is skipped before any download and *)
(* without any log record.                                                 *)
(***************************************************************************)
C13_FirstNProcessed ==
    cfg.test_all # 0 =>
        \A r \in Runs : RunEnded(r) =>
            \A c \in Categories : Cardinality(Queued(c)) > cfg.test_all =>
                /\ { i \in Queued(c) : HasEv(r, i, "begin") } = FirstOf(Queued(c), cfg.test_all)
                /\ \A i \in Queued(c) \ FirstOf(Queued(c), cfg.test_all) :
                      /\ EventsOf(r, i) = {"capped"}
                      /\ ConsoleRecords(r, i) = << >>


\* the items that have reached a terminal outcome (OK, fallback or ERROR) in run r
Terminal(r) ==
    { i \in Items : \E e \in {"save_ok", "save_fail", "download_fail", "placeholder_fail"} :
                       HasEv(r, i, e) }

(***************************************************************************)
(* C14.  Count limit: with max-files = M at most M items are downloaded in *)
(* a run, the processed count never exceeds M, and once M items have       *)
(* reached a terminal outcome no item later in the listing is downloaded,  *)
(* converted, saved or logged in that run: a later item is at most passed  *)
(* over by a filter or is the one at which the loop stops.                 *)
(***************************************************************************)
C14_CountLimit ==
    cfg.max_files # NoMaxFiles =>
        /\ processed_count <= cfg.max_files
        /\ \A r \in Runs :
              /\ Cardinality({ i \in Items : HasEv(r, i, "begin") }) <= cfg.max_files
              /\ Cardinality(Terminal(r)) >= cfg.max_files =>
                    \A j \in Items : (\A i \in Terminal(r) : j > i) =>
                        /\ EventsOf(r, j) \subseteq {"filtered", "max_files"}
                        /\ ConsoleRecords(r, j) = << >>
                        /\ FileRecords(r, j) = << >>

\* the limit has been reached with an unfiltered item still to come, and the
\* loop has stopped at that item
C14_Witness ==
    /\ cfg.max_files # NoMaxFiles
    /\ \E r \in Runs : \E j \in Items :
          /\ Cardinality(Terminal(r)) = cfg.max_files
          /\ HasEv(r, j, "max_files")
          /\ ~IsFilteredOut(blobs[j])


(***************************************************************************)
(* any2pdf.py called as a library: convert_anything_to_pdf(src_path,       *)
(* dst_dir, attach_original) and attach_original_to_pdf(pdf_path,          *)
(* original_path), step by step.                                           *)
(***************************************************************************)
\* number of calls in a behaviour
MaxCalls == 2

\* the paths a caller passes; a path below in/ is outside dst_dir
IN_DOC == <<"i","n","/","d","o","c",".","d","o","c","x">>
IN_PIC == <<"i","n","/","P","I","C",".","P","N","G">>
IN_SCAN == <<"i","n","/","s","c","a","n",".","p","d","f">>
IN_XYZ == <<"i","n","/","x",".","x","y","z">>
\* a path where no file exists
IN_GONE == <<"i","n","/","g","o","n","e",".","x","y","z">>
\* files in dst_dir: a PDF that was put there, the output of an earlier conversion
OUT_SCAN == <<"s","c","a","n",".","p","d","f">>
OUT_DOC == <<"d","o","c",".","p","d","f">>
OLD_DOC == <<"o","l","d","/","d","o","c",".","d","o","c">>

\* the content of a PDF file given as a source
SourcePdf(n) == [kind |-> "pdf", pages |-> "original", of |-> n, attach |-> << >>]

\* the PDF an earlier conversion with attach_original left at doc.pdf
EarlierOutput == attach_original_to_pdf(RenderedPdf(RawBytes(OLD_DOC)), PathName(OLD_DOC), RawBytes(OLD_DOC))

\* a file whose writing was interrupted
Partial(c) == [c EXCEPT !.kind = "partial"]

\* the source files alone, dst_dir not yet created
SourcesOnly ==
    (IN_DOC :> RawBytes(IN_DOC)) @@ (IN_PIC :> RawBytes(IN_PIC))
    @@ (IN_SCAN :> SourcePdf(IN_SCAN)) @@ (IN_XYZ :> RawBytes(IN_XYZ))

\* the source files and a dst_dir that holds scan.pdf and doc.pdf
WithOutputs == (OUT_SCAN :> SourcePdf(OUT_SCAN)) @@ (OUT_DOC :> EarlierOutput) @@ SourcesOnly

ConvertSources == {IN_DOC, IN_PIC, IN_SCAN, OUT_SCAN, IN_XYZ, IN_GONE}
AttachTargets == {OUT_DOC, OUT_SCAN}
AttachOriginals == {IN_DOC, IN_GONE}

\* tempfile.NamedTemporaryFile(dir=pdf_path.parent, suffix='.pdf'): a fresh name
TmpNumbers == <<"1","2","3","4","5","6","7","8","9">>
TmpName(k) == <<"t","m","p">> \o <<TmpNumbers[k]>> \o DotPdf

ConvertCall(src, attach) ==
    [op |-> "convert", src |-> src, attach |-> attach, pdf_path |-> StemPdf(src)]

AttachCallOf(pdf, orig) ==
    [op |-> "attach", src |-> orig, attach |-> TRUE, pdf_path |-> pdf]

\* the record of a finished call
Outcome(c, status, path, error) == [call |-> c, status |-> status, path |-> path, error |-> error]

InitLibrary ==
    /\ DriverNotRun
    /\ LedgerNotRun
    /\ ClassifierNotRun
    /\ RendererNotRun
    /\ disk \in {SourcesOnly, WithOutputs}
    /\ dst_dir_made = (disk = WithOutputs)
    /\ call = NoCall
    /\ cpc = "idle"
    /\ writer = NoContent
    /\ results = << >>
    /\ invoked = << >>
    /\ at_entry = EmptyDir
    /\ embed_entry = EmptyDir
    /\ ncalls = 0

\* a caller makes the call c
BeginCall(c) ==
    /\ cpc = "idle"
    /\ ncalls < MaxCalls
    /\ ncalls' = ncalls + 1
    /\ call' = c
    /\ at_entry' = disk
    /\ writer' = NoContent

\* the call raises
Raise(error) ==
    /\ results' = Append(results, Outcome(call, "raised", << >>, error))
    /\ cpc' = "idle"

\* the call returns path
Return(path) ==
    /\ results' = Append(results, Outcome(call, "returned", path, ""))
    /\ cpc' = "idle"

\* what no library step changes
LibraryFrame == UNCHANGED <<driverVars, ledgerVars, ext_arg, category_ret, app, handle, pending>>

\* the directory is created before the source is looked at
ConvertNotFound_MkdirFirst ==
    \E src \in ConvertSources : \E attach \in BOOLEAN :
        /\ BeginCall(ConvertCall(src, attach))
        /\ src \notin DOMAIN disk
        /\ dst_dir_made' = TRUE
        /\ results' = Append(results, Outcome(ConvertCall(src, attach), "raised", << >>, "NotFound"))
        /\ cpc' = "idle"
        /\ invoked' = << >>
        /\ embed_entry' = EmptyDir
        /\ UNCHANGED disk
        /\ LibraryFrame

\* convert_anything_to_pdf, lines 595-597: the source does not exist
ConvertNotFound ==
    \E src \in ConvertSources : \E attach \in BOOLEAN :
        /\ BeginCall(ConvertCall(src, attach))
        /\ src \notin DOMAIN disk
        /\ results' = Append(results, Outcome(ConvertCall(src, attach), "raised", << >>, "NotFound"))
        /\ cpc' = "idle"
        /\ invoked' = << >>
        /\ embed_entry' = EmptyDir
        /\ UNCHANGED <<disk, dst_dir_made>>
        /\ LibraryFrame

\* convert_anything_to_pdf, lines 600-603 and 631-636: the directory is made,
\* the extension is outside every set
ConvertUnsupported ==
    \E src \in ConvertSources : \E attach \in BOOLEAN :
        /\ BeginCall(ConvertCall(src, attach))
        /\ src \in DOMAIN disk
        /\ dst_dir_made' = TRUE
        /\ RendererFor(PathSuffix(src)) = "unsupported"
        /\ results' = Append(results, Outcome(ConvertCall(src, attach), "raised", << >>,
                                              "UnsupportedFormat"))
        /\ cpc' = "idle"
        /\ invoked' = << >>
        /\ embed_entry' = EmptyDir
        /\ UNCHANGED disk
        /\ LibraryFrame

\* convert_anything_to_pdf, lines 606-608: a PDF goes to _handle_pdf, always
\* with attach_original=False
ConvertPdf ==
    \E src \in ConvertSources : \E attach \in BOOLEAN :
        /\ BeginCall(ConvertCall(src, attach))
        /\ src \in DOMAIN disk
        /\ dst_dir_made' = TRUE
        /\ RendererFor(PathSuffix(src)) = "pdf"
        /\ invoked' = <<"pdf">>
        /\ LET res == handle_pdf(disk, src)
           IN  /\ disk' = res.dir
               /\ results' = Append(results, Outcome(ConvertCall(src, attach), "returned",
                                                     res.path, ""))
        /\ cpc' = "idle"
        /\ embed_entry' = EmptyDir
        /\ LibraryFrame

\* convert_anything_to_pdf, lines 610-629: the renderer of the category is called
ConvertRoute ==
    \E src \in ConvertSources : \E attach \in BOOLEAN :
        /\ BeginCall(ConvertCall(src, attach))
        /\ src \in DOMAIN disk
        /\ dst_dir_made' = TRUE
        /\ RendererFor(PathSuffix(src)) \notin {"pdf", "unsupported"}
        /\ invoked' = <<RendererFor(PathSuffix(src))>>
        /\ cpc' = "render"
        /\ embed_entry' = EmptyDir
        /\ UNCHANGED <<disk, results>>
        /\ LibraryFrame

\* a renderer (for instance _convert_image_to_pdf, lines 307-313): the PDF is
\* written at dst_path; attach_original_to_pdf is entered when asked,
\* otherwise dst_path is returned
RenderOk ==
    /\ cpc = "render"
    /\ disk' = WriteFile(disk, call.pdf_path, RenderedPdf(disk[call.src]))
    /\ IF call.attach
       THEN /\ cpc' = "attach_read"
            /\ embed_entry' = disk'
            /\ UNCHANGED results
       ELSE /\ Return(call.pdf_path)
            /\ UNCHANGED embed_entry
    /\ UNCHANGED <<dst_dir_made, call, writer, invoked, at_entry, ncalls>>
    /\ LibraryFrame

\* the renderer raises (password, corrupted file, automation failure, timeout)
RenderFail ==
    /\ cpc = "render"
    /\ Raise("RenderFailure")
    /\ UNCHANGED <<disk, dst_dir_made, call, writer, invoked, at_entry, embed_entry, ncalls>>
    /\ LibraryFrame

\* a caller calls attach_original_to_pdf(pdf_path, original_path) directly
AttachCall ==
    \E pdf \in AttachTargets : \E orig \in AttachOriginals :
        /\ BeginCall(AttachCallOf(pdf, orig))
        /\ cpc' = "attach_read"
        /\ embed_entry' = disk
        /\ invoked' = << >>
        /\ UNCHANGED <<disk, dst_dir_made, results>>
        /\ LibraryFrame

\* attach_original_to_pdf, lines 108-121: the PDF and the original are read,
\* the writer holds the pages and the attachment
AttachRead ==
    /\ cpc = "attach_read"
    /\ call.pdf_path \in DOMAIN disk
    /\ disk[call.pdf_path].kind = "pdf"
    /\ call.src \in DOMAIN disk
    /\ writer' = attach_original_to_pdf(disk[call.pdf_path], PathName(call.src), disk[call.src])
    /\ cpc' = "attach_write"
    /\ UNCHANGED <<disk, dst_dir_made, call, results, invoked, at_entry, embed_entry, ncalls>>
    /\ LibraryFrame

\* attach_original_to_pdf, lines 109-118: PdfReader or open raises (no such
\* file, not a PDF, I/O error)
AttachReadFail ==
    /\ cpc = "attach_read"
    /\ Raise("AttachmentReadFailure")
    /\ UNCHANGED <<disk, dst_dir_made, call, writer, invoked, at_entry, embed_entry, ncalls>>
    /\ LibraryFrame

\* attach_original_to_pdf, lines 123-131: the writer is written to a fresh
\* temporary file in the directory of pdf_path
AttachWrite ==
    /\ cpc = "attach_write"
    /\ disk' = WriteFile(disk, TmpName(ncalls), writer)
    /\ cpc' = "attach_replace"
    /\ UNCHANGED <<dst_dir_made, call, writer, results, invoked, at_entry, embed_entry, ncalls>>
    /\ LibraryFrame

\* the interrupted write goes to pdf_path itself
AttachWriteFail_InPlace ==
    /\ cpc = "attach_write"
    /\ disk' = WriteFile(disk, call.pdf_path, Partial(writer))
    /\ Raise("AttachmentWriteFailure")
    /\ UNCHANGED <<dst_dir_made, call, writer, invoked, at_entry, embed_entry, ncalls>>
    /\ LibraryFrame

\* attach_original_to_pdf, lines 123-131: writer.write raises (disk full); the
\* temporary file was made with delete=False and stays
AttachWriteFail ==
    /\ cpc = "attach_write"
    /\ disk' = WriteFile(disk, TmpName(ncalls), Partial(writer))
    /\ Raise("AttachmentWriteFailure")
    /\ UNCHANGED <<dst_dir_made, call, writer, invoked, at_entry, embed_entry, ncalls>>
    /\ LibraryFrame

\* attach_original_to_pdf, line 134: os.replace(tmp_path, pdf_path)
AttachReplace ==
    /\ cpc = "attach_replace"
    /\ disk' = [p \in DOMAIN disk \ {TmpName(ncalls)} |->
                  IF p = call.pdf_path THEN disk[TmpName(ncalls)] ELSE disk[p]]
    /\ Return(call.pdf_path)
    /\ UNCHANGED <<dst_dir_made, call, writer, invoked, at_entry, embed_entry, ncalls>>
    /\ LibraryFrame

NextLibrary ==
    \/ ConvertNotFound
    \/ ConvertUnsupported
    \/ ConvertPdf
    \/ ConvertRoute
    \/ RenderOk
    \/ RenderFail
    \/ AttachCall
    \/ AttachRead
    \/ AttachReadFail
    \/ AttachWrite
    \/ AttachWriteFail
    \/ AttachReplace

SpecLibrary == InitLibrary /\ [][NextLibrary]_vars


\* whether the call made last has finished, and its record
CallFinished == cpc = "idle" /\ ncalls > 0
LastResult == results[Len(results)]

\* a step in which a caller calls convert_anything_to_pdf
ConvertIsCalled == ncalls' = ncalls + 1 /\ call'.op = "convert"

(***************************************************************************)
(* C15.  Dispatcher error precedence: a conversion of a source that does   *)
(* not exist raises NotFound without creating the output directory,        *)
(* without invoking a renderer and without touching any file; a conversion *)
(* of an existing source whose lower-cased extension is outside the        *)
(* supported set raises UnsupportedFormat without invoking a renderer and  *)
(* without writing any file.  Either error is raised in no other case.     *)
(***************************************************************************)
C15_ErrorPrecedence ==
    [][ConvertIsCalled =>
          /\ call'.src \notin DOMAIN disk =>
                /\ Len(results') = ncalls'
                /\ results'[ncalls'].status = "raised"
                /\ results'[ncalls'].error = "NotFound"
                /\ dst_dir_made' = dst_dir_made
                /\ disk' = disk
                /\ invoked' = << >>
          /\ (call'.src \in DOMAIN disk
                /\ Lower(PathSuffix(call'.src)) \notin ALL_SUPPORTED_EXTENSIONS) =>
                /\ Len(results') = ncalls'
                /\ results'[ncalls'].status = "raised"
                /\ results'[ncalls'].error = "UnsupportedFormat"
                /\ disk' = disk
                /\ invoked' = << >>
          /\ (call'.src \in DOMAIN disk
                /\ Lower(PathSuffix(call'.src)) \in ALL_SUPPORTED_EXTENSIONS) =>
                /\ Len(invoked') = 1
                /\ Len(results') = ncalls' => results'[ncalls'].status = "returned"]_vars

\* a missing source was refused while dst_dir did not exist, then a source
\* with an unsupported extension was refused and no file was written
C15_Witness ==
    /\ Len(results) = 2
    /\ results[1].error = "NotFound"
    /\ results[1].call.src = IN_GONE
    /\ results[2].error = "UnsupportedFormat"
    /\ disk = SourcesOnly

(***************************************************************************)
(* The extension classifier alone.                                         *)
(***************************************************************************)
UpperOf ==
    [l \in { LowerChars[i] : i \in 1..Len(LowerChars) } |->
        UpperChars[CHOOSE i \in 1..Len(LowerChars) : LowerChars[i] = l]]

\* s.upper()
Upper(s) == [i \in 1..Len(s) |-> IF s[i] \in DOMAIN UpperOf THEN UpperOf[s[i]] ELSE s[i]]

\* s with its second character in upper case (".Pdf")
Capitalised(s) == [i \in 1..Len(s) |-> IF i = 2 /\ s[i] \in DOMAIN UpperOf THEN UpperOf[s[i]] ELSE s[i]]

\* extensions no set contains, and no extension at all
UnmappedExtensions == { <<".","x","y","z">>, <<".","z","i","p">>, <<".","p","d","f","x">>, <<".","p","d">>, << >> }

\* the extensions get_category_for_extension is called with: every mapped
\* and some unmapped ones, in lower, upper and mixed case
ExtPool ==
    UNION { {e, Upper(e), Capitalised(e)} : e \in ALL_SUPPORTED_EXTENSIONS \cup UnmappedExtensions }

InitClassify ==
    /\ DriverNotRun
    /\ LedgerNotRun
    /\ RendererNotRun
    /\ disk = EmptyDir
    /\ dst_dir_made = FALSE
    /\ call = NoCall
    /\ cpc = "idle"
    /\ writer = NoContent
    /\ results = << >>
    /\ invoked = << >>
    /\ at_entry = EmptyDir
    /\ embed_entry = EmptyDir
    /\ ncalls = 0
    /\ ext_arg \in ExtPool
    /\ category_ret = ""

\* get_category_for_extension(ext_arg) is called and returns
Classify ==
    /\ category_ret = ""
    /\ category_ret' = get_category_for_extension(ext_arg)
    /\ UNCHANGED <<driverVars, ledgerVars, disk, dst_dir_made, call, cpc, writer, results,
                   invoked, at_entry, embed_entry, ncalls, ext_arg, app, handle, pending>>

SpecClassify == InitClassify /\ [][Classify]_vars

(***************************************************************************)
(* C16.  get_category_for_extension is total and case-insensitive: for     *)
(* every extension it returns one of the nine categories, the same one for *)
(* the upper-case and the lower-case spelling, and attachment for every    *)
(* extension outside the supported set; every category is returned for     *)
(* some extension.                                                         *)
(***************************************************************************)
C16_ClassifierTotal ==
    /\ category_ret # "" =>
          /\ category_ret \in Categories
          /\ category_ret = get_category_for_extension(Upper(ext_arg))
          /\ category_ret = get_category_for_extension(Lower(ext_arg))
          /\ Lower(ext_arg) \notin ALL_SUPPORTED_EXTENSIONS <=> category_ret = "attachment"
          /\ Lower(ext_arg) \in WORD_EXTENSIONS => category_ret = "word"
          /\ Lower(ext_arg) \in IMAGE_EXTENSIONS => category_ret = "image"
    /\ \A c \in Categories : \E e \in ExtPool : get_category_for_extension(e) = c

\* an extension spelt in upper case has been classified as a word document
C16_Witness ==
    /\ category_ret = "word"
    /\ ext_arg = Upper(ext_arg)

(***************************************************************************)
(* C17.  PDF pass-through round trip: converting an existing PDF with      *)
(* embedding disabled, when the source path is the target path             *)
(* <stem>.pdf in dst_dir, writes nothing and returns the source path; when *)
(* the paths differ, the target afterwards holds the content of the        *)
(* source, the source and every other file are unchanged, and the target   *)
(* path is returned.                                                       *)
(***************************************************************************)
C17_PassThroughRoundTrip ==
    [][(ConvertIsCalled /\ ~call'.attach /\ call'.src \in DOMAIN disk
          /\ Lower(PathSuffix(call'.src)) \in PDF_EXTENSIONS) =>
          /\ Len(results') = ncalls'
          /\ results'[ncalls'].status = "returned"
          /\ IF call'.src = StemPdf(call'.src)
             THEN /\ disk' = disk
                  /\ results'[ncalls'].path = call'.src
             ELSE /\ DOMAIN disk' = DOMAIN disk \cup {StemPdf(call'.src)}
                  /\ disk'[StemPdf(call'.src)] = disk[call'.src]
                  /\ \A p \in DOMAIN disk \ {StemPdf(call'.src)} : disk'[p] = disk[p]
                  /\ results'[ncalls'].path = StemPdf(call'.src)]_vars

\* scan.pdf in dst_dir was passed through in place, then in/scan.pdf was
\* copied over it
C17_Witness ==
    /\ Len(results) = 2
    /\ results[1] = Outcome(ConvertCall(OUT_SCAN, FALSE), "returned", OUT_SCAN, "")
    /\ results[2] = Outcome(ConvertCall(IN_SCAN, FALSE), "returned", OUT_SCAN, "")
    /\ disk[OUT_SCAN] = SourcePdf(IN_SCAN)
    /\ disk[IN_SCAN] = SourcePdf(IN_SCAN)

(***************************************************************************)
(* C18 (as stated).  For a PDF source embedding is skipped unless the      *)
(* caller asks for it: after a conversion of a PDF that returned, the      *)
(* output carries the original as an attachment when the caller passed     *)
(* attach_original = TRUE, and nothing is embedded otherwise.              *)
(***************************************************************************)
C18_EmbeddingCanBeForced ==
    (CallFinished /\ call.op = "convert" /\ LastResult.status = "returned"
       /\ Lower(PathSuffix(call.src)) \in PDF_EXTENSIONS) =>
        IF call.attach
        THEN \E k \in 1..Len(disk[LastResult.path].attach) :
                disk[LastResult.path].attach[k] =
                    [name |-> PathName(call.src), bytes |-> at_entry[call.src]]
        ELSE disk[LastResult.path] = at_entry[call.src]

\* the PDF that is the complete new file of the embedding in progress
NewPdf ==
    [kind |-> "pdf",
     pages |-> embed_entry[call.pdf_path].pages,
     of |-> embed_entry[call.pdf_path].of,
     attach |-> <<[name |-> PathName(call.src), bytes |-> embed_entry[call.src]]>>]

\* attach_original_to_pdf has been entered in the call made last
Embedding == embed_entry # EmptyDir

(***************************************************************************)
(* C19.  Embedder atomicity: from the moment attach_original_to_pdf is     *)
(* entered, at every step the content at pdf_path is the complete old PDF  *)
(* or the complete new PDF (the old pages and one attachment named after   *)
(* the original, holding its bytes), never a partial file; it is the new   *)
(* PDF once the call has returned; and when reading the PDF or the         *)
(* original fails, every file is as it was and no file has been created.   *)
(***************************************************************************)
C19_EmbedAtomic ==
    Embedding =>
        /\ DOMAIN embed_entry \subseteq DOMAIN disk
        /\ call.pdf_path \in DOMAIN embed_entry =>
              /\ disk[call.pdf_path].kind = "pdf"
              /\ \/ disk[call.pdf_path] = embed_entry[call.pdf_path]
                 \/ call.src \in DOMAIN embed_entry /\ disk[call.pdf_path] = NewPdf
        /\ (CallFinished /\ LastResult.status = "returned") =>
              /\ disk[call.pdf_path] = NewPdf
              /\ DOMAIN disk = DOMAIN embed_entry
              /\ \A p \in DOMAIN disk \ {call.pdf_path} : disk[p] = embed_entry[p]
        /\ (CallFinished /\ LastResult.error = "AttachmentReadFailure") => disk = embed_entry
        /\ (call.pdf_path \notin DOMAIN embed_entry \/ call.src \notin DOMAIN embed_entry) =>
              disk = embed_entry

\* the original has been embedded into a PDF that carried an attachment
\* before: the file at pdf_path has been replaced by the new PDF
C19_Witness ==
    /\ CallFinished
    /\ call = AttachCallOf(OUT_DOC, IN_DOC)
    /\ LastResult.status = "returned"
    /\ embed_entry[OUT_DOC] = EarlierOutput
    /\ disk[OUT_DOC] # EarlierOutput

(***************************************************************************)
(* C20 (as stated).  No partial state: when a conversion raises, no file   *)
(* produced by that call is at <stem>.pdf in dst_dir (the path is absent   *)
(* or holds what it held before the call); when it returns, the returned   *)
(* path is <stem>.pdf in dst_dir and a complete PDF is there.  This holds  *)
(* for every category, also when the renderer succeeds and the attachment  *)
(* step fails.                                                             *)
(***************************************************************************)
C20_NoPartialState ==
    (CallFinished /\ call.op = "convert") =>
        /\ LastResult.status = "raised" =>
              (call.pdf_path \in DOMAIN disk =>
                  /\ call.pdf_path \in DOMAIN at_entry
                  /\ disk[call.pdf_path] = at_entry[call.pdf_path])
        /\ LastResult.status = "returned" =>
              /\ LastResult.path = call.pdf_path
              /\ call.pdf_path \in DOMAIN disk
              /\ disk[call.pdf_path].kind = "pdf"


\* ---------------------------------------------------------------------------
\* No retry within a pass (main, lines 336-364)
\* ---------------------------------------------------------------------------

\* the positions of the history at which item i of run r did one of the steps S
StepsOf(r, i, S) ==
    { k \in 1..Len(hist) : hist[k].run = r /\ hist[k].item = i /\ hist[k].ev \in S }

DownloadSteps == {"download_ok", "download_fail"}
ConvertSteps == {"convert_ok", "convert_fail"}
PlaceholderSteps == {"placeholder_ok", "placeholder_fail"}
SaveSteps == {"save_ok", "save_fail"}

\* C21: within one pass every item is downloaded at most once, the primary
\* conversion is invoked at most once, the placeholder generator at most once
\* and only after the primary conversion of the item failed, and the upload
\* (or local copy) is attempted at most once
C21_NoRetry ==
    \A r \in Runs : \A i \in Items :
        /\ Cardinality(StepsOf(r, i, DownloadSteps)) <= 1
        /\ Cardinality(StepsOf(r, i, ConvertSteps)) <= 1
        /\ Cardinality(StepsOf(r, i, PlaceholderSteps)) <= 1
        /\ Cardinality(StepsOf(r, i, SaveSteps)) <= 1
        /\ \A k \in StepsOf(r, i, PlaceholderSteps) :
               \E j \in StepsOf(r, i, {"convert_fail"}) : j < k

\* an item whose conversion failed, whose placeholder was generated and whose
\* upload failed has been left behind, each step taken once
C21_Witness ==
    \E r \in Runs : \E i \in Items :
        /\ Passed(r, i)
        /\ {"download_ok", "convert_fail", "placeholder_ok", "save_fail"} \subseteq EventsOf(r, i)


\* ---------------------------------------------------------------------------
\* The scratch directory between items (main, lines 279-364)
\* ---------------------------------------------------------------------------

\* C22: the scratch files of an item (the downloaded source and the produced
\* PDF) are removed on every exit path before the next item is processed: when
\* an item begins, the scratch directory holds no file left by earlier items
C22_ScratchReleasedPerItem ==
    pc = "download" => tmpdir = EmptyDir


\* ---------------------------------------------------------------------------
\* The cap counts skipped items (main, lines 312-334)
\* ---------------------------------------------------------------------------

\* the items of category c that run r skipped as already converted, and the
\* ones whose try block it entered (the download follows at once)
SkippedExisting(r, c) ==
    { i \in Items : BlobCategory(blobs[i]) = c /\ HasEv(r, i, "skip_existing") }
Begun(r, c) ==
    { i \in Items : BlobCategory(blobs[i]) = c /\ HasEv(r, i, "begin") }

NoOverwriteUpload == ~cfg.local_output /\ ~Overwrite

\* item i of run r ended with an ERROR record
EndedInError(r, i) ==
    /\ FileRecords(r, i) # << >>
    /\ FileRecords(r, i)[Len(FileRecords(r, i))].kind = "ERROR"

\* C26: in upload mode without overwrite and without force no step of a run
\* changes or removes a destination blob that exists when the step is taken,
\* one written earlier in the same run included; of two items of a run that
\* map to the same destination, once the first was uploaded the second is
\* never uploaded and ends with an ERROR record
C26_ExistingBlobNeverReplaced ==
    /\ [][NoOverwriteUpload =>
             \A n \in DOMAIN store : n \in DOMAIN store' /\ store'[n] = store[n]]_vars
    /\ [](NoOverwriteUpload =>
             \A r \in Runs : \A i \in Items : \A j \in Items :
                 ( /\ i < j
                   /\ target_pdf_name(blobs[i]) = target_pdf_name(blobs[j])
                   /\ HasEv(r, i, "save_ok")
                   /\ HasEv(r, j, "begin") )
                 => /\ ~HasEv(r, j, "save_ok")
                    /\ Passed(r, j) => EndedInError(r, j))

\* two items of one run map to the same destination: the first was uploaded,
\* the second was converted, refused by the store and logged as an error, and
\* the blob still is the PDF of the first
C26_Witness ==
    /\ NoOverwriteUpload
    /\ \E r \in Runs : \E i \in Items : \E j \in Items :
          /\ i < j
          /\ target_pdf_name(blobs[i]) = target_pdf_name(blobs[j])
          /\ HasEv(r, i, "save_ok")
          /\ HasEv(r, j, "convert_ok")
          /\ HasEv(r, j, "save_fail")
          /\ Passed(r, j)
          /\ EndedInError(r, j)
          /\ FileRecords(r, j)[Len(FileRecords(r, j))].msg = "BlobAlreadyExists"
          /\ MadeFrom(store[target_pdf_name(blobs[i])], blobs[i])


\* ---------------------------------------------------------------------------
\* What an OK line and a FALLBACK line imply (main, lines 342-364)
\* ---------------------------------------------------------------------------

\* the records of kind k the log file holds for item i of run r
RecordsOfKind(r, i, k) == SelectSeq(FileRecords(r, i), LAMBDA x : x.kind = k)

\* C27: an OK record is appended only after the destination write of that item
\* succeeded in the same run, so every OK line names a source whose
\* destination was written; the FALLBACK record is appended when the
\* conversion fails, before the placeholder is generated and uploaded, so it
\* is in the log while the placeholder step is still to come
C27_OkAfterWriteFallbackBefore ==
    \A r \in Runs : \A i \in Items :
        /\ \A k \in 1..Len(RecordsOfKind(r, i, "OK")) :
               LET rec == RecordsOfKind(r, i, "OK")[k]
               IN  /\ rec.name = blobs[i].name
                   /\ HasEv(r, i, "save_ok")
                   /\ rec.dest = Destination(blobs[i])
                   /\ rec.dest \in DOMAIN Target
        /\ HasEv(r, i, "convert_fail") <=> RecordsOfKind(r, i, "FALLBACK") # << >>
        /\ (run = r /\ idx = i /\ pc = "placeholder") =>
               /\ RecordsOfKind(r, i, "FALLBACK") # << >>
               /\ StepsOf(r, i, PlaceholderSteps \cup SaveSteps) = {}

\* one item has its OK line and its destination; another has a FALLBACK line
\* and is finished, and its destination does not exist
C27_Witness ==
    \E r \in Runs : \E i \in Items : \E j \in Items :
        /\ RecordsOfKind(r, i, "OK") # << >>
        /\ Destination(blobs[i]) \in DOMAIN Target
        /\ RecordsOfKind(r, j, "FALLBACK") # << >>
        /\ Passed(r, j)
        /\ Destination(blobs[j]) \notin DOMAIN Target


\* ---------------------------------------------------------------------------
\* The scratch directory is shared by the items of a run
\* (main, lines 279-357; _convert_html_to_pdf, any2pdf.py lines 364-388)
\* ---------------------------------------------------------------------------

\* the pages of the PDF c were made from blob b: rendered from its bytes, or
\* the placeholder page written for it, or its own pages (a PDF source)
OwnPages(c, b) ==
    \/ c.pages \in {"rendered", "source"} /\ c.of = b.name
    \/ c.pages = "placeholder" /\ c.of = local_name(b)

\* C28: no cross-item contamination through the shared scratch directory: the
\* page content of the PDF an item uploads was produced during that item's own
\* processing from its own source, also when an earlier item of the run had
\* the same file stem and left <stem>.pdf in the scratch directory and the
\* HTML-based renderer of the current item exits with code 0 without writing
\* its output file
C28_NoCrossItemContamination ==
    \A r \in Runs : \A i \in Items :
        (JustFinished(r, i) /\ HasEv(r, i, "save_ok")) =>
            OwnPages(Target[Destination(blobs[i])], blobs[i])


\* ---------------------------------------------------------------------------
\* Classifier and dispatcher agree (any2pdf.py lines 36-50, 59-78, 602-636)
\* ---------------------------------------------------------------------------

\* convert_anything_to_pdf, lines 602-636, for an existing source whose suffix
\* is ext_arg: the branch taken, named after the renderer it calls
\* ("unsupported" for the ValueError of the else branch)
Route ==
    /\ invoked = << >>
    /\ invoked' = <<RendererFor(ext_arg)>>
    /\ UNCHANGED <<driverVars, ledgerVars, disk, dst_dir_made, call, cpc, writer, results,
                   at_entry, embed_entry, ncalls, ext_arg, category_ret, app, handle, pending>>

NextDispatch ==
    \/ Classify
    \/ Route

\* the classifier and the dispatcher are both given the extension ext_arg
SpecDispatch == InitClassify /\ [][NextDispatch]_vars

\* the eight extension sets, in the order both functions test them
ExtensionSets ==
    <<PDF_EXTENSIONS, WORD_EXTENSIONS, EXCEL_EXTENSIONS, PPT_EXTENSIONS,
      IMAGE_EXTENSIONS, HTML_EXTENSIONS, MSG_EXTENSIONS, EML_EXTENSIONS>>

\* C29: the classifier returns a category other than attachment exactly for
\* the extensions whose lower-case form is in ALL_SUPPORTED_EXTENSIONS; for
\* every supported extension the dispatcher calls the renderer of exactly the
\* category the classifier returns; the extension sets are pairwise disjoint
C29_ClassifierMatchesDispatcher ==
    /\ category_ret # "" =>
          (category_ret # "attachment" <=> Lower(ext_arg) \in ALL_SUPPORTED_EXTENSIONS)
    /\ (invoked # << >> /\ Lower(ext_arg) \in ALL_SUPPORTED_EXTENSIONS) =>
          /\ invoked = <<get_category_for_extension(ext_arg)>>
          /\ category_ret # "" => invoked = <<category_ret>>
    /\ \A i \in DOMAIN ExtensionSets : \A j \in DOMAIN ExtensionSets :
          i # j => ExtensionSets[i] \cap ExtensionSets[j] = {}
    /\ UNION { ExtensionSets[i] : i \in DOMAIN ExtensionSets } = ALL_SUPPORTED_EXTENSIONS

\* a text file spelt .TXT was classified as a word document and the
\* dispatcher called the Word renderer for it
C29_Witness ==
    /\ ext_arg = <<".","T","X","T">>
    /\ category_ret = "word"
    /\ invoked = <<"word">>


(***************************************************************************)
(* The COM renderers and the e-mail renderers of any2pdf.py, step by step: *)
(* _convert_word_to_pdf (137-182), _convert_excel_to_pdf (185-229),        *)
(* _convert_ppt_to_pdf (232-277), _convert_eml_to_pdf (391-485) and        *)
(* _convert_msg_to_pdf (488-534), each called directly.                    *)
(***************************************************************************)
IN_BOOK == <<"i","n","/","b","o","o","k",".","x","l","s","x">>
IN_DECK == <<"i","n","/","d","e","c","k",".","p","p","t","x">>
IN_NOTE_MSG == <<"i","n","/","n","o","t","e",".","m","s","g">>
IN_MAIL_EML == <<"i","n","/","m","a","i","l",".","e","m","l">>

RenderSources == {IN_DOC, IN_BOOK, IN_DECK, IN_NOTE_MSG, IN_MAIL_EML}

OfficeRenderers == {"word", "excel", "ppt"}
ComRenderers == OfficeRenderers \cup {"msg"}

\* dst_dir / f"{src_path.stem}_temp.html" and the PDF Edge prints from it
TempHtml(src) == PathStem(src) \o <<"_","t","e","m","p",".","h","t","m","l">>
TempPdf(src) == PathStem(src) \o <<"_","t","e","m","p",".","p","d","f">>

\* the HTML document made from the message with content c
HtmlOf(c) == [kind |-> "html", pages |-> "message", of |-> c.of, attach |-> << >>]

\* the directory d without the file f
RemoveFile(d, f) == [x \in DOMAIN d \ {f} |-> d[x]]

\* the renderer of src is called directly
RenderCall(src, attach) ==
    [op |-> RendererFor(PathSuffix(src)), src |-> src, attach |-> attach, pdf_path |-> StemPdf(src)]

InitRender ==
    /\ DriverNotRun
    /\ LedgerNotRun
    /\ ClassifierNotRun
    /\ RendererNotRun
    /\ disk = [p \in RenderSources |-> RawBytes(p)]
    /\ dst_dir_made = TRUE
    /\ call = NoCall
    /\ cpc = "idle"
    /\ writer = NoContent
    /\ results = << >>
    /\ invoked = << >>
    /\ at_entry = EmptyDir
    /\ embed_entry = EmptyDir
    /\ ncalls = 0

\* what the first step of a renderer leaves alone, and what a later step does
EntryFrame ==
    UNCHANGED <<driverVars, ledgerVars, ext_arg, category_ret, dst_dir_made, invoked, embed_entry>>
StepFrame ==
    UNCHANGED <<driverVars, ledgerVars, ext_arg, category_ret, dst_dir_made, invoked, embed_entry,
                call, ncalls, at_entry, writer>>

\* the finally clause is done: the exception in flight goes on; without one,
\* the Office and .msg renderers attach the original when asked and return
\* dst_path (lines 178-182, 225-229, 273-277, 530-534), the .eml renderer
\* completes its return (line 479)
AfterFinally ==
    /\ pending' = ""
    /\ IF pending # "" THEN Raise(pending)
       ELSE IF call.attach /\ call.op # "eml" THEN cpc' = "attach" /\ UNCHANGED results
       ELSE Return(call.pdf_path)

\* lines 143-149, 191-197, 238-244, 494-502: the renderer is entered and
\* DispatchEx creates the application instance, or raises
Dispatch ==
    \E src \in RenderSources : \E attach \in BOOLEAN :
        /\ RendererFor(PathSuffix(src)) \in ComRenderers
        /\ BeginCall(RenderCall(src, attach))
        /\ handle' = "none"
        /\ \/ app' = "running" /\ pending' = "" /\ cpc' = "open"
           \/ app' = "none" /\ pending' = "dispatch_failed" /\ cpc' = "close"
        /\ UNCHANGED <<disk, results>>
        /\ EntryFrame

\* lines 150-162, 198-210, 248-258, 503-506: the application is set up and the
\* document, workbook, presentation or message is opened, or a call raises
OpenHandle ==
    /\ cpc = "open"
    /\ \/ handle' = "open" /\ pending' = pending
          /\ cpc' = IF call.op = "msg" THEN "save_html" ELSE "export"
       \/ handle' = handle /\ pending' = "open_failed" /\ cpc' = "close"
    /\ UNCHANGED <<disk, results, app>>
    /\ StepFrame

\* lines 164-169, 212-216, 260-264: the PDF is exported to dst_path, or the
\* export raises
Export ==
    /\ cpc = "export"
    /\ \/ disk' = WriteFile(disk, call.pdf_path, RenderedPdf(disk[call.src])) /\ pending' = pending
       \/ disk' = disk /\ pending' = "export_failed"
    /\ cpc' = "close"
    /\ UNCHANGED <<results, app, handle>>
    /\ StepFrame

\* lines 508-510: msg.SaveAs writes <stem>_temp.html, or raises with the file
\* missing or half written
SaveHtml ==
    /\ cpc = "save_html"
    /\ \/ /\ disk' = WriteFile(disk, TempHtml(call.src), HtmlOf(disk[call.src]))
          /\ pending' = pending
          /\ cpc' = "edge"
       \/ /\ disk' \in {disk, WriteFile(disk, TempHtml(call.src), Partial(HtmlOf(disk[call.src])))}
          /\ pending' = "save_failed"
          /\ cpc' = "close"
    /\ UNCHANGED <<results, app, handle>>
    /\ StepFrame

\* _convert_eml_to_pdf, lines 397-464: the message is parsed and the HTML
\* document written to <stem>_temp.html; no body part raises ValueError
\* (line 435) before anything is written; write_text can raise with the file
\* created and half written
WriteTempHtml ==
    \E src \in RenderSources : \E attach \in BOOLEAN :
        /\ RendererFor(PathSuffix(src)) = "eml"
        /\ BeginCall(RenderCall(src, attach))
        /\ app' = "none" /\ handle' = "none" /\ pending' = ""
        /\ \/ /\ disk' = WriteFile(disk, TempHtml(src), HtmlOf(disk[src]))
              /\ cpc' = "edge"
              /\ UNCHANGED results
           \/ /\ disk' = disk
              /\ results' = Append(results, Outcome(RenderCall(src, attach), "raised", << >>, "no_body"))
              /\ cpc' = "idle"
           \/ /\ disk' = WriteFile(disk, TempHtml(src), Partial(HtmlOf(disk[src])))
              /\ results' = Append(results, Outcome(RenderCall(src, attach), "raised", << >>, "write_failed"))
              /\ cpc' = "idle"
        /\ EntryFrame

\* lines 468 and 513: _convert_html_to_pdf(temp_html, dst_dir, False) prints
\* <stem>_temp.pdf, or raises
Edge ==
    /\ cpc = "edge"
    /\ \/ /\ disk' = WriteFile(disk, TempPdf(call.src), RenderedPdf(disk[TempHtml(call.src)]))
          /\ pending' = pending
          /\ cpc' = "rename"
       \/ /\ disk' = disk
          /\ pending' = "render_failed"
          /\ cpc' = IF call.op = "msg" THEN "close" ELSE "unlink"
    /\ UNCHANGED <<results, app, handle>>
    /\ StepFrame

\* lines 470-473 and 515-517: os.replace moves <stem>_temp.pdf to <stem>.pdf,
\* or raises; the .eml renderer then attaches inside its try block
Rename ==
    /\ cpc = "rename"
    /\ \/ /\ disk' = WriteFile(RemoveFile(disk, TempPdf(call.src)), call.pdf_path,
                               disk[TempPdf(call.src)])
          /\ pending' = pending
          /\ cpc' = IF call.op = "msg" THEN "close"
                    ELSE IF call.attach THEN "attach" ELSE "unlink"
       \/ /\ disk' = disk
          /\ pending' = "rename_failed"
          /\ cpc' = IF call.op = "msg" THEN "close" ELSE "unlink"
    /\ UNCHANGED <<results, app, handle>>
    /\ StepFrame

\* finally, lines 171-174, 218-221, 266-269, 519-522: the handle is closed if
\* one was opened; when Close raises, the exception leaves the finally clause
\* at once and the call ends
CloseHandle ==
    /\ cpc = "close"
    /\ IF handle = "open"
       THEN \/ handle' = "closed" /\ cpc' = "quit" /\ UNCHANGED <<results, pending>>
            \/ handle' = "close_failed" /\ Raise("close_failed") /\ pending' = ""
       ELSE handle' = handle /\ cpc' = "quit" /\ UNCHANGED <<results, pending>>
    /\ UNCHANGED <<disk, app>>
    /\ StepFrame

\* finally, lines 175-176, 222-223, 270-271, 523-524: the application is quit
\* if one was created; when Quit raises, the call ends; the .msg renderer
\* goes on to remove the temporary HTML file
QuitApp ==
    /\ cpc = "quit"
    /\ LET next == IF call.op = "msg" THEN cpc' = "unlink" /\ UNCHANGED <<results, pending>>
                   ELSE AfterFinally
       IN  IF app = "running"
           THEN \/ app' = "quit" /\ next
                \/ app' = "quit_failed" /\ Raise("quit_failed") /\ pending' = ""
           ELSE app' = app /\ next
    /\ UNCHANGED <<disk, handle>>
    /\ StepFrame

\* finally, lines 480-485 and 526-528: <stem>_temp.html is removed if it is there
UnlinkTemp ==
    /\ cpc = "unlink"
    /\ disk' = RemoveFile(disk, TempHtml(call.src))
    /\ AfterFinally
    /\ UNCHANGED <<app, handle>>
    /\ StepFrame

\* lines 178-180, 225-227, 273-275, 475-477, 530-532: attach_original_to_pdf
\* (dst_path, src_path) returns or raises; in the .eml renderer the finally
\* clause follows
Attach ==
    /\ cpc = "attach"
    /\ \/ /\ disk' = WriteFile(disk, call.pdf_path,
                               attach_original_to_pdf(disk[call.pdf_path], PathName(call.src),
                                                      disk[call.src]))
          /\ IF call.op = "eml"
             THEN cpc' = "unlink" /\ UNCHANGED <<results, pending>>
             ELSE Return(call.pdf_path) /\ UNCHANGED pending
       \/ /\ disk' = disk
          /\ IF call.op = "eml"
             THEN cpc' = "unlink" /\ pending' = "attach_failed" /\ UNCHANGED results
             ELSE Raise("attach_failed") /\ UNCHANGED pending
    /\ UNCHANGED <<app, handle>>
    /\ StepFrame

NextRender ==
    \/ Dispatch
    \/ OpenHandle
    \/ Export
    \/ SaveHtml
    \/ WriteTempHtml
    \/ Edge
    \/ Rename
    \/ CloseHandle
    \/ QuitApp
    \/ UnlinkTemp
    \/ Attach

SpecRender == InitRender /\ [][NextRender]_vars


\* C23: in the Word, Excel, PowerPoint and Outlook (.msg) renderers every
\* application instance and every document or message handle the call
\* acquired is released on the success path and on every failure path, also
\* when open or export fails and when closing the handle itself fails: no
\* call returns or raises while an application instance it acquired has not
\* been asked to quit, or a handle it opened has not been asked to close
C23_ComResourcesReleased ==
    (CallFinished /\ LastResult.call.op \in ComRenderers) =>
        /\ app # "running"
        /\ handle # "open"

\* C24: after every call of the .eml or .msg renderer, whichever of its steps
\* failed, <stem>_temp.html no longer exists in the output directory; when the
\* call returns, the result is <stem>.pdf, which exists, and <stem>_temp.pdf
\* does not
C24_TempHtmlRemoved ==
    (CallFinished /\ LastResult.call.op \in {"eml", "msg"}) =>
        /\ TempHtml(LastResult.call.src) \notin DOMAIN disk
        /\ LastResult.status = "returned" =>
              /\ LastResult.path = StemPdf(LastResult.call.src)
              /\ StemPdf(LastResult.call.src) \in DOMAIN disk
              /\ TempPdf(LastResult.call.src) \notin DOMAIN disk

=============================================================================
